---- MODULE Spec2Model ----
(***************************************************************************)
(* Model of backlog-mcp: the sync-issues, update-issues and                *)
(* bulk-create-tasks tools of the bundled server, with TaskFileManager     *)
(* (folder assignment, file reconciliation, orphan cleanup, sync state,    *)
(* temporary task files) and BacklogClient.                                *)
(*                                                                         *)
(* Strings that the code parses or compares (titles, descriptions, file    *)
(* contents) are sequences of one-character strings.  Directories are      *)
(* paths relative to the task root.                                        *)
(***************************************************************************)
EXTENDS Integers, Sequences, FiniteSets, TLC

VARIABLES
    projectKey, \* config.projectKey, the prefix of every issue key
    files,      \* task root: [Dirs \X Keys -> content | NoFile]
    dirs,       \* directories that exist under the task root
    lastSync,   \* the .last-sync file
    remote,     \* the remote tracker: [Ids -> issue | NoIssue]
    clock,      \* wall clock (ISO timestamps, as a counter)
    envSteps,   \* number of user / remote-side changes so far
    out         \* what the last tool call did (log, counters, result)

vars == <<projectKey, files, dirs, lastSync, remote, clock, envSteps, out>>

----------------------------------------------------------------------------
(* Bounds *)

MaxSyncs == 2
MaxEnvSteps == 1
MaxKeysPerCall == 2
MaxHops == 3
MaxTitleLen == 3
MaxDescLen == 2
MaxTime == 4
TicksPerDay == 2
MaxTextLen == 4
PageLimit == 2
MaxRemoteIssues == 6

----------------------------------------------------------------------------
(* Universe *)

\* Project keys: one of letters only, one with a digit.
Projects == {"A", "A2"}

Ids == {1, 2, 3}

\* issue.issueKey: the project key, a dash and the number of the issue.
KeyTable ==
    [p \in Projects |-> IF p = "A" THEN <<"A-1", "A-2", "A-3">>
                                    ELSE <<"A2-1", "A2-2", "A2-3">>]
KeyOf(id) == KeyTable[projectKey][id]
Keys == {KeyOf(i) : i \in Ids}
IdOf(key) == CHOOSE i \in Ids : KeyOf(i) = key

\* A renamed parent folder of the first issue.
FeatureDir == IF projectKey = "A" THEN "A-1-feature" ELSE "A2-1-feature"

\* Directories a file can be in: the catch-all, a free user folder, the
\* renamed parent folder and the folders named after a key.
Dirs == {"others", "sprint-3", FeatureDir} \cup Keys

\* The order in which readdir lists the task root.
DirOrder == <<KeyOf(1), FeatureDir, KeyOf(2), KeyOf(3), "others", "sprint-3">>

\* entry.name.startsWith(`${key}-`)
StartsWithKeyDash(d, k) == d = FeatureDir /\ k = KeyOf(1)

\* /^[A-Z]+-\d+$/ on the name of a file, less its .md
MatchesKeyPattern(name) == name \in {"A-1", "A-2", "A-3"}

\* A directory named after an issue key, with no suffix.
IsBareKeyName(d) == d \in Keys

\* A custom directory: not of the bare form PREFIX-NUMBER (a PREFIX-NUMBER
\* followed by a suffix is not bare).
IsCustomDir(d) == d \in Dirs /\ ~IsBareKeyName(d)

NoFile == <<"NOFILE">>
NoIssue == [id |-> 0]
NoDir == "(none)"

TypeNames == {"Task", "Bug"}

----------------------------------------------------------------------------
(* Strings *)

Str1(c) == <<c>>
WS == {" ", "\n"}

RECURSIVE TrimLeft(_)
TrimLeft(s) == IF s = <<>> THEN <<>>
               ELSE IF Head(s) \in WS THEN TrimLeft(Tail(s)) ELSE s

RECURSIVE TrimRight(_)
TrimRight(s) == IF s = <<>> THEN <<>>
                ELSE IF s[Len(s)] \in WS THEN TrimRight(SubSeq(s, 1, Len(s) - 1)) ELSE s

\* String.prototype.trim
Trim(s) == TrimRight(TrimLeft(s))

\* content.split("\n")
RECURSIVE SplitLines(_)
SplitLines(s) ==
    IF \A i \in 1..Len(s) : s[i] # "\n" THEN <<s>>
    ELSE LET i == CHOOSE j \in 1..Len(s) : s[j] = "\n" /\ \A m \in 1..(j - 1) : s[m] # "\n"
         IN  <<SubSeq(s, 1, i - 1)>> \o SplitLines(SubSeq(s, i + 1, Len(s)))

\* lines.join("\n")
RECURSIVE JoinLines(_)
JoinLines(ls) == IF ls = <<>> THEN <<>>
                 ELSE IF Len(ls) = 1 THEN ls[1]
                 ELSE ls[1] \o <<"\n">> \o JoinLines(Tail(ls))

\* line.startsWith("# ")
StartsWithHash(line) == Len(line) >= 2 /\ line[1] = "#" /\ line[2] = " "

----------------------------------------------------------------------------
(* Task file format *)

\* issue.description || "" : the remote may hold null; the model holds <<>>.
\* generateMarkdownContent: "# " + title + "\n\n" + description, the
\* description left out when it is blank.
generateMarkdownContent(title, description) ==
    <<"#", " ">> \o title \o <<"\n", "\n">> \o
    (IF description # <<>> /\ Trim(description) # <<>> THEN description ELSE <<>>)

\* Index of the first line that starts with "# ", 0 when there is none.
TitleIndex(lines) ==
    IF \E i \in 1..Len(lines) : StartsWithHash(lines[i])
    THEN CHOOSE i \in 1..Len(lines) :
            StartsWithHash(lines[i]) /\ \A j \in 1..(i - 1) : ~StartsWithHash(lines[j])
    ELSE 0

\* The parsing part of readTaskFile: {title, description} of a file content.
ParseTaskFile(content) ==
    LET lines == SplitLines(content)
        ti == TitleIndex(lines)
    IN  [title |-> IF ti = 0 THEN <<>>
                   ELSE Trim(SubSeq(lines[ti], 3, Len(lines[ti]))),
         description |-> IF ti = 0 THEN <<>>
                         ELSE Trim(JoinLines(SubSeq(lines, ti + 1, Len(lines))))]

----------------------------------------------------------------------------
(* File system *)

Path(d, k) == <<d, k>>

\* Index of a directory in the readdir order.
DirRank ==
    [p \in Projects |->
        [n \in {"others", "sprint-3", "feature"} \cup {KeyTable[p][i] : i \in Ids} |->
            CASE n = KeyTable[p][1] -> 1
              [] n = "feature" -> 2
              [] n = KeyTable[p][2] -> 3
              [] n = KeyTable[p][3] -> 4
              [] n = "others" -> 5
              [] OTHER -> 6]]
DirIndex(d) == DirRank[projectKey][IF d = FeatureDir THEN "feature" ELSE d]

\* Variant: the search looks into others/ only, not into every directory.
findExistingTaskFile_OthersOnly(fs, issueKey) ==
    IF fs[Path("others", issueKey)] # NoFile THEN "others" ELSE NoDir

\* findExistingTaskFile / searchTaskFileRecursively: the directory of the
\* first file named {issueKey}.md in scan order, NoDir when there is none.
findExistingTaskFile(fs, issueKey) ==
    LET hits == {d \in Dirs : fs[Path(d, issueKey)] # NoFile}
    IN  IF hits = {} THEN NoDir
        ELSE CHOOSE d \in hits : \A e \in hits : DirIndex(d) <= DirIndex(e)

\* The directory of the last file named {issueKey}.md in scan order.
LastTaskFile(fs, issueKey) ==
    LET hits == {d \in Dirs : fs[Path(d, issueKey)] # NoFile}
    IN  IF hits = {} THEN NoDir
        ELSE CHOOSE d \in hits : \A e \in hits : DirIndex(d) >= DirIndex(e)

\* getExistingTaskFiles / collectTaskFilesRecursively: the paths of all files
\* whose name matches /^[A-Z]+-\d+\.md$/.
\* A scan that takes every file, whatever its name.
getExistingTaskFiles_AnyMd(fs) ==
    {p \in DOMAIN fs : fs[p] # NoFile}

getExistingTaskFiles(fs) ==
    {p \in Dirs \X Keys : MatchesKeyPattern(p[2]) /\ fs[p] # NoFile}

\* Variant: no directory is ever found.
FirstDirWithPrefix_None(ds, key) == NoDir

\* Variant: the directory looked for is the one named {key}.
FirstDirWithPrefix_Exact(ds, key) == IF key \in ds THEN key ELSE NoDir

\* The first top-level directory whose name starts with "{key}-".
FirstDirWithPrefix(ds, key) ==
    LET hits == {d \in ds : StartsWithKeyDash(d, key)}
    IN  IF hits = {} THEN NoDir
        ELSE CHOOSE d \in hits : \A e \in hits : DirIndex(d) <= DirIndex(e)

\* readTaskFile: the parsed first file named {issueKey}.md, NoTask (null)
\* when there is none.
NoTask == [found |-> FALSE]
readTaskFile(fs, issueKey) ==
    LET dir == findExistingTaskFile(fs, issueKey)
        parsed == ParseTaskFile(fs[Path(dir, issueKey)])
    IN  IF dir = NoDir THEN NoTask
        ELSE [found |-> TRUE, title |-> parsed.title, description |-> parsed.description]

----------------------------------------------------------------------------
(* Issues *)

\* updated: the time of the last change on the remote, in clock ticks.
Issue(id, parentId, typeName, summary, description) ==
    [id |-> id, issueKey |-> KeyOf(id), parentIssueId |-> parentId,
     typeName |-> typeName, summary |-> summary, description |-> description,
     updated |-> 0]

Range(s) == {s[i] : i \in 1..Len(s)}

\* Variant: nothing is filtered.
filterIgnoredIssueTypes_None(issues, ignoreIssueTypes) == issues

\* Variant: the comparison of the type names ignores the case of the letters.
filterIgnoredIssueTypes_AnyCase(issues, ignoreIssueTypes) ==
    LET lower(n) == IF n = "Bug" THEN "bug" ELSE n
    IN  SelectSeq(issues, LAMBDA x : lower(x.typeName) \notin {lower(n) : n \in ignoreIssueTypes})

\* filterIgnoredIssueTypes: issues whose type name is not in the list; the
\* comparison is Array.includes on the name, character for character.
filterIgnoredIssueTypes(issues, ignoreIssueTypes) ==
    IF ignoreIssueTypes = {} THEN issues
    ELSE SelectSeq(issues, LAMBDA x : x.typeName \notin ignoreIssueTypes)

NoKey == "(no key)"

\* Variant: a parent that is not in the list is never made up from idToKeyMap.
buildIssueTreeMap_NoStub(issues, idToKeyMap) ==
    [i \in 1..Len(issues) |->
        LET issue == issues[i]
            inSet == \E j \in 1..Len(issues) : issues[j].id = issue.parentIssueId
        IN  [issueKey |-> issue.issueKey,
             parent |-> IF inSet THEN KeyOf(issue.parentIssueId) ELSE NoKey,
             stub |-> FALSE,
             children |-> LET kids == SelectSeq(issues,
                                        LAMBDA x : x.parentIssueId = issue.id)
                          IN  [j \in 1..Len(kids) |-> kids[j].issueKey]]]

\* buildIssueTreeMap: one node per issue, in the order of the list.  The
\* parent is the issue of the list with id parentIssueId, otherwise a stub
\* carrying idToKeyMap[parentIssueId], otherwise undefined.
buildIssueTreeMap(issues, idToKeyMap) ==
    [i \in 1..Len(issues) |->
        LET issue == issues[i]
            pid == issue.parentIssueId
            inSet == \E j \in 1..Len(issues) : issues[j].id = pid
        IN  [issueKey |-> issue.issueKey,
             parent |-> IF pid = 0 THEN NoKey
                        ELSE IF inSet THEN KeyOf(pid)
                        ELSE IF pid \in DOMAIN idToKeyMap THEN idToKeyMap[pid]
                        ELSE NoKey,
             stub |-> pid # 0 /\ ~inSet /\ pid \in DOMAIN idToKeyMap,
             children |-> LET kids == SelectSeq(issues,
                                        LAMBDA x : x.parentIssueId = issue.id)
                          IN  [j \in 1..Len(kids) |-> kids[j].issueKey]]]

----------------------------------------------------------------------------
(* Folder assignment *)

\* Variant: only a file in a custom directory is recorded.
ExistingFolders_CustomOnly(fs) ==
    [k \in Keys |-> IF MatchesKeyPattern(k) /\ IsCustomDir(LastTaskFile(fs, k))
                    THEN LastTaskFile(fs, k) ELSE NoDir]

\* First loop of matchCustomFoldersWithIssues: every existing task file whose
\* name matches /^[A-Z]+-\d+$/ maps its key to the directory it is in (a later
\* file of the scan replaces an earlier one of the same name).
ExistingFolders(fs) ==
    [k \in Keys |-> IF MatchesKeyPattern(k) THEN LastTaskFile(fs, k) ELSE NoDir]

\* Second loop of matchCustomFoldersWithIssues, from node i of the tree on.
\* map[k] = NoDir stands for "issueToFolderMap has no entry for k".
RECURSIVE MatchLoop(_, _, _, _)
MatchLoop(tree, i, map, ds) ==
    IF i > Len(tree) THEN map
    ELSE
      LET node == tree[i]
          k == node.issueKey
      IN  IF map[k] # NoDir THEN MatchLoop(tree, i + 1, map, ds)
          ELSE IF node.parent # NoKey THEN
            LET known == map[node.parent]
                found == IF known # NoDir THEN NoDir
                         ELSE FirstDirWithPrefix(ds, node.parent)
                parentFolder == IF known # NoDir THEN known ELSE found
                map1 == IF found # NoDir THEN [map EXCEPT ![node.parent] = found] ELSE map
                map2 == [map1 EXCEPT ![k] = IF parentFolder # NoDir THEN parentFolder
                                            ELSE "others"]
            IN  MatchLoop(tree, i + 1, map2, ds)
          ELSE IF Len(node.children) > 0 THEN
            LET found == FirstDirWithPrefix(ds, k)
                parentFolder == IF found # NoDir THEN found ELSE k
                map1 == [x \in Keys |->
                            IF x = k THEN parentFolder
                            ELSE IF x \in Range(node.children) /\ map[x] = NoDir
                                 THEN parentFolder
                                 ELSE map[x]]
            IN  MatchLoop(tree, i + 1, map1, ds)
          ELSE MatchLoop(tree, i + 1, [map EXCEPT ![k] = "others"], ds)

\* matchCustomFoldersWithIssues: issue key -> assigned folder.
matchCustomFoldersWithIssues(tree, fs, ds) ==
    MatchLoop(tree, 1, ExistingFolders(fs), ds)

----------------------------------------------------------------------------
(* Reconciliation *)

\* A file system fault of one pass: operation op ("write" stands for mkdir
\* or writeFile, "rm" for rm) fails on the task file of one key.
NoFail == [key |-> NoKey, op |-> "none"]
Faults == {NoFail} \cup [key : Keys, op : {"write", "rm"}]
Fails(fail, k, op) == fail.key = k /\ fail.op = op

\* State of a pass: the tree, the folder assigned to each issue of the
\* filtered list, and what the pass did.
PassStart(fs, ds) ==
    [files |-> fs, dirs |-> ds, folders |-> <<>>, created |-> {}, moved |-> {},
     rewritten |-> {}, overwritten |-> {}, visited |-> {}, logged |-> {},
     thrown |-> FALSE]

\* What a pass reports: the assigned folders, the keys it created, moved,
\* rewrote (overwritten: with a content other than the one the file had),
\* visited and logged a failure for, and whether an exception left the loop.
PassReport(st) ==
    [folders |-> st.folders, created |-> st.created, moved |-> st.moved,
     rewritten |-> st.rewritten, overwritten |-> st.overwritten,
     visited |-> st.visited, logged |-> st.logged, thrown |-> st.thrown]

\* Variant: the file is copied, the old one is not removed.
moveTaskFile_Copy(st, issueKey, fromDir, toDir, fail) ==
    [st EXCEPT !.dirs = @ \cup {toDir},
               !.files[Path(toDir, issueKey)] = st.files[Path(fromDir, issueKey)],
               !.moved = @ \cup {issueKey}]

\* Variant: the file stays where it is.
moveTaskFile_Stay(st, issueKey, fromDir, toDir, fail) == st

\* moveTaskFile: ensureDir, readFile, writeFile, rm; a failure is caught
\* and logged, and what was done before it stays done.
moveTaskFile(st, issueKey, fromDir, toDir, fail) ==
    IF Fails(fail, issueKey, "write")
    THEN [st EXCEPT !.logged = @ \cup {issueKey}]
    ELSE LET content == st.files[Path(fromDir, issueKey)]
             written == [st.files EXCEPT ![Path(toDir, issueKey)] = content]
         IN  IF Fails(fail, issueKey, "rm")
             THEN [st EXCEPT !.dirs = @ \cup {toDir}, !.files = written,
                             !.logged = @ \cup {issueKey}]
             ELSE [st EXCEPT !.dirs = @ \cup {toDir},
                             !.files = [written EXCEPT ![Path(fromDir, issueKey)] = NoFile],
                             !.moved = @ \cup {issueKey}]

\* Variant: the existing file is left as it is.
syncIssue_Skip(st, issue, fail) == st

\* syncIssue: rewrite the existing file from the remote fields; a failure
\* is rethrown.
syncIssue(st, issue, fail) ==
    LET existingDir == findExistingTaskFile(st.files, issue.issueKey)
    IN  IF existingDir = NoDir THEN st
        ELSE IF Fails(fail, issue.issueKey, "write") THEN [st EXCEPT !.thrown = TRUE]
        ELSE LET markdownContent ==
                     generateMarkdownContent(issue.summary, issue.description)
             IN  [st EXCEPT !.files[Path(existingDir, issue.issueKey)] = markdownContent,
                            !.rewritten = @ \cup {issue.issueKey},
                            !.overwritten =
                                IF st.files[Path(existingDir, issue.issueKey)] # markdownContent
                                THEN @ \cup {issue.issueKey} ELSE @]

\* Body of the loop of syncIssues for one issue.
SyncOne(st, issue, folderMap, fail) ==
    LET k == issue.issueKey
        existingDir == findExistingTaskFile(st.files, k)
        targetFolder == IF folderMap[k] # NoDir THEN folderMap[k] ELSE "others"
        st1 == [st EXCEPT !.visited = @ \cup {k}]
    IN  IF existingDir = NoDir THEN
            IF Fails(fail, k, "write") THEN [st1 EXCEPT !.thrown = TRUE]
            ELSE [st1 EXCEPT !.dirs = @ \cup {targetFolder},
                             !.files[Path(targetFolder, k)] =
                                 generateMarkdownContent(issue.summary, issue.description),
                             !.created = @ \cup {k}]
        ELSE IF existingDir # targetFolder
             THEN moveTaskFile(st1, k, existingDir, targetFolder, fail)
             ELSE syncIssue(st1, issue, fail)

\* The loop of syncIssues; an exception leaves the loop.
RECURSIVE SyncLoop(_, _, _, _, _)
SyncLoop(st, issues, i, folderMap, fail) ==
    IF i > Len(issues) \/ st.thrown THEN st
    ELSE SyncLoop(SyncOne(st, issues[i], folderMap, fail), issues, i + 1, folderMap, fail)

\* syncIssues: filter, tree, folder assignment, then the loop.
syncIssues(fs, ds, idToKeyMap, issues, ignoreIssueTypes, fail) ==
    LET filteredIssues == filterIgnoredIssueTypes(issues, ignoreIssueTypes)
        issueTreeMap == buildIssueTreeMap(filteredIssues, idToKeyMap)
        issueToFolderMap == matchCustomFoldersWithIssues(issueTreeMap, fs, ds)
        targetFolders ==
            [k \in {x.issueKey : x \in Range(filteredIssues)} |->
                IF issueToFolderMap[k] # NoDir THEN issueToFolderMap[k] ELSE "others"]
    IN  SyncLoop([PassStart(fs, ds) EXCEPT !.folders = targetFolders],
                 filteredIssues, 1, issueToFolderMap, fail)

\* removeTaskFile: rm of the first file named {issueKey}.md; a failure is
\* caught and logged.
removeTaskFile(fs, issueKey, fail) ==
    LET d == findExistingTaskFile(fs, issueKey)
    IN  IF d = NoDir \/ Fails(fail, issueKey, "rm") THEN fs
        ELSE [fs EXCEPT ![Path(d, issueKey)] = NoFile]

\* cleanupRemovedIssues: one removeTaskFile per existing file whose key is
\* not in currentIssueKeys.
RECURSIVE RemoveAll(_, _, _)
RemoveAll(fs, paths, fail) ==
    IF paths = {} THEN fs
    ELSE LET p == CHOOSE q \in paths : TRUE
         IN  RemoveAll(removeTaskFile(fs, p[2], fail), paths \ {p}, fail)

cleanupRemovedIssues(fs, currentIssueKeys, fail) ==
    RemoveAll(fs, {p \in getExistingTaskFiles(fs) : p[2] \notin currentIssueKeys}, fail)

----------------------------------------------------------------------------
(* Sync state store *)

\* The .last-sync file is one of
\*   [present |-> FALSE, ...]          no file,
\*   [present |-> TRUE, text |-> s]    a content s that is not a JSON object,
\*   [present |-> TRUE, f |-> v, ...]  a JSON object with the fields f, of
\*                                     timestamp and idToKeyMap.
\* A timestamp is a number: a time n >= 1 stands for the ISO string of that
\* time, 0 for a falsy value (null, undefined, the empty string) and NotADate
\* for any other text, of which new Date() makes an invalid date.
NoLastSync == [present |-> FALSE, timestamp |-> 0, idToKeyMap |-> <<>>]

NotADate == 0 - 1

\* The null of a timestamp that is kept as text.
NullText == <<"null">>

\* JSON.parse of a content that is not an object: a number literal, a
\* string literal, each with white space around it, or a syntax error.
JSONKind(s) ==
    LET t == Trim(s)
    IN  IF t # <<>> /\ \A i \in 1..Len(t) : t[i] = "1" THEN "number"
        ELSE IF /\ Len(t) >= 2
                /\ t[1] = "\"" /\ t[Len(t)] = "\""
                /\ \A i \in 2..(Len(t) - 1) : t[i] \notin {"\"", "\n"}
             THEN "string"
        ELSE "error"

\* The timestamp that getLastSyncData returns for such a content: the
\* trimmed string when JSON.parse gives a string, the trimmed content when
\* JSON.parse throws, and null for any other JSON value.
LegacyTimestamp(s) ==
    CASE JSONKind(s) = "string" -> Trim(SubSeq(Trim(s), 2, Len(Trim(s)) - 1))
      [] JSONKind(s) = "error" -> Trim(s)
      [] OTHER -> NullText

\* A timestamp text as the handler takes it: `if (lastSyncTime)` and
\* `new Date(lastSyncTime)`; <<"1", "Z">> is the ISO string of time 1.
TimeOfText(t) ==
    IF t = NullText \/ t = <<>> THEN 0
    ELSE IF t = <<"1", "Z">> THEN 1
    ELSE NotADate

\* getLastSyncData: {timestamp, idToKeyMap}; a field that the object does
\* not have, or that is falsy, gives null (0) and {}.
getLastSyncData(ls) ==
    IF ~ls.present THEN [timestamp |-> 0, idToKeyMap |-> <<>>]
    ELSE IF "text" \in DOMAIN ls
         THEN [timestamp |-> TimeOfText(LegacyTimestamp(ls.text)), idToKeyMap |-> <<>>]
    ELSE [timestamp |-> IF "timestamp" \in DOMAIN ls THEN ls.timestamp ELSE 0,
          idToKeyMap |-> IF "idToKeyMap" \in DOMAIN ls THEN ls.idToKeyMap ELSE <<>>]

\* Variant: the parent ids of the issues are recorded as well.
saveLastSyncTime_WithParents(timestamp, issues) ==
    [present |-> TRUE, timestamp |-> timestamp,
     idToKeyMap |-> [id \in {x.id : x \in Range(issues)} \cup
                              ({x.parentIssueId : x \in Range(issues)} \ {0}) |-> KeyOf(id)]]

\* Variant: no id is recorded.
saveLastSyncTime_NoMap(timestamp, issues) ==
    [present |-> TRUE, timestamp |-> timestamp, idToKeyMap |-> <<>>]

\* Variant: the timestamp written is the time at the end of the pass, one
\* tick after the time taken before the fetch.
saveLastSyncTime_AtEnd(timestamp, issues) ==
    [present |-> TRUE, timestamp |-> timestamp + 1,
     idToKeyMap |-> [id \in {x.id : x \in Range(issues)} |-> KeyOf(id)]]

\* Variant: the entries of the persisted map are kept.
saveLastSyncTime_Merge(timestamp, issues) ==
    [present |-> TRUE, timestamp |-> timestamp,
     idToKeyMap |-> [id \in {x.id : x \in Range(issues)} \cup
                              DOMAIN getLastSyncData(lastSync).idToKeyMap |-> KeyOf(id)]]

\* saveLastSyncTime: {timestamp, idToKeyMap} with one entry per issue.
saveLastSyncTime(timestamp, issues) ==
    [present |-> TRUE, timestamp |-> timestamp,
     idToKeyMap |-> [id \in {x.id : x \in Range(issues)} |-> KeyOf(id)]]

----------------------------------------------------------------------------
(* Remote tracker *)

\* config.ignoreIssueTypes
ignoreIssueTypes == {"Bug"}

PresentIds == {i \in Ids : remote[i] # NoIssue}

\* All orderings of a set of ids.
RECURSIVE Orderings(_)
Orderings(S) ==
    IF S = {} THEN {<<>>}
    ELSE UNION {{<<x>> \o t : t \in Orderings(S \ {x})} : x \in S}

\* The answers of the remote, as lists of ids: getIssues returns every
\* issue of the project, getIssuesUpdatedSince those updated since a date;
\* the order is the remote's.
IssueList(order) == [i \in 1..Len(order) |-> remote[order[i]]]
AllOrderings == [S \in SUBSET Ids |-> Orderings(S)]
FullFetches == AllOrderings[PresentIds]
IncrementalFetches == UNION {AllOrderings[S] : S \in SUBSET PresentIds}

----------------------------------------------------------------------------
(* sync-issues *)

Idle == [op |-> "none"]

\* The handler of sync-issues, from the connection test to the save of
\* .last-sync.  isConnected, fetchOk: what the remote does; fail: the file
\* system fault of this pass.  toISOString of an invalid date throws in
\* getIssuesUpdatedSince, which ends the call as a failed fetch does.
\* Variant: the orphan cleanup runs on every sync.
CleanupEnabled_Always(lastSyncTime) == TRUE

\* `if (!lastSyncTime)` before cleanupRemovedIssues: the orphan cleanup runs
\* on a full sync only.
CleanupEnabled(lastSyncTime) == lastSyncTime = 0

\* What the tool call did: the timestamp it read from .last-sync, the set of
\* fetched issues, the report of the pass and the keys whose files the orphan
\* cleanup removed.
SyncReport(result, full, issues, fail, pass, removed) ==
    [op |-> "sync-issues", result |-> result, full |-> full,
     since |-> getLastSyncData(lastSync).timestamp, issues |-> Range(issues),
     fail |-> fail, pass |-> PassReport(pass), removed |-> removed]

\* Variant: .last-sync is written whenever the remote is reachable, whether
\* the fetch and the pass succeed or not.
SyncIssuesHandler_SaveFirst(isConnected, fetchOk, issues, fail) ==
    LET lastSyncTime == getLastSyncData(lastSync).timestamp
        currentSyncTime == clock + 1
        ds0 == dirs \cup {"others"}
        currentIssueKeys == {x.issueKey : x \in Range(issues)}
    IN  /\ clock' = IF isConnected THEN currentSyncTime ELSE clock
        /\ UNCHANGED <<projectKey, remote, envSteps>>
        /\ IF ~isConnected THEN
              /\ UNCHANGED <<files, dirs, lastSync>>
              /\ out' = SyncReport("not connected", lastSyncTime = 0, <<>>, NoFail,
                                   PassStart(files, dirs), {})
           ELSE IF ~fetchOk \/ lastSyncTime = NotADate THEN
              /\ dirs' = ds0
              /\ lastSync' = saveLastSyncTime(currentSyncTime, issues)
              /\ UNCHANGED files
              /\ out' = SyncReport("error", lastSyncTime = 0, <<>>, NoFail,
                                   PassStart(files, dirs), {})
           ELSE
              \E pass \in {syncIssues(files, ds0, getLastSyncData(lastSync).idToKeyMap,
                                      issues, ignoreIssueTypes, fail)} :
                 IF pass.thrown THEN
                    /\ files' = pass.files
                    /\ dirs' = pass.dirs
                    /\ lastSync' = saveLastSyncTime(currentSyncTime, issues)
                    /\ out' = SyncReport("error", lastSyncTime = 0, issues, fail, pass, {})
                 ELSE
                    /\ files' = IF CleanupEnabled(lastSyncTime)
                                THEN cleanupRemovedIssues(pass.files, currentIssueKeys, fail)
                                ELSE pass.files
                    /\ dirs' = pass.dirs
                    /\ lastSync' = saveLastSyncTime(currentSyncTime, issues)
                    /\ out' = SyncReport("ok", lastSyncTime = 0, issues, fail, pass,
                                         {k \in Keys : \E d \in Dirs :
                                             /\ pass.files[Path(d, k)] # NoFile
                                             /\ files'[Path(d, k)] = NoFile})

SyncIssuesHandler(isConnected, fetchOk, issues, fail) ==
    LET lastSyncTime == getLastSyncData(lastSync).timestamp
        currentSyncTime == clock + 1
        ds0 == dirs \cup {"others"}
        currentIssueKeys == {x.issueKey : x \in Range(issues)}
    IN  /\ clock' = IF isConnected THEN currentSyncTime ELSE clock
        /\ UNCHANGED <<projectKey, remote, envSteps>>
        /\ IF ~isConnected THEN
              /\ UNCHANGED <<files, dirs, lastSync>>
              /\ out' = SyncReport("not connected", lastSyncTime = 0, <<>>, NoFail,
                                   PassStart(files, dirs), {})
           ELSE IF ~fetchOk \/ lastSyncTime = NotADate THEN
              /\ dirs' = ds0
              /\ UNCHANGED <<files, lastSync>>
              /\ out' = SyncReport("error", lastSyncTime = 0, <<>>, NoFail,
                                   PassStart(files, dirs), {})
           ELSE
              \E pass \in {syncIssues(files, ds0, getLastSyncData(lastSync).idToKeyMap,
                                      issues, ignoreIssueTypes, fail)} :
                 IF pass.thrown THEN
                    /\ files' = pass.files
                    /\ dirs' = pass.dirs
                    /\ UNCHANGED lastSync
                    /\ out' = SyncReport("error", lastSyncTime = 0, issues, fail, pass, {})
                 ELSE
                    /\ files' = IF CleanupEnabled(lastSyncTime)
                                THEN cleanupRemovedIssues(pass.files, currentIssueKeys, fail)
                                ELSE pass.files
                    /\ dirs' = pass.dirs
                    /\ lastSync' = saveLastSyncTime(currentSyncTime, issues)
                    /\ out' = SyncReport("ok", lastSyncTime = 0, issues, fail, pass,
                                         {k \in Keys : \E d \in Dirs :
                                             /\ pass.files[Path(d, k)] # NoFile
                                             /\ files'[Path(d, k)] = NoFile})

\* One call of the tool: the remote is not reachable, the fetch fails, or
\* the fetch answers (getIssues when no timestamp is persisted, otherwise
\* getIssuesUpdatedSince).
SyncIssuesCall(faults) ==
    \/ SyncIssuesHandler(FALSE, FALSE, <<>>, NoFail)
    \/ SyncIssuesHandler(TRUE, FALSE, <<>>, NoFail)
    \/ \E fail \in {f \in faults : f.key = NoKey \/ remote[IdOf(f.key)] # NoIssue} :
         \E order \in (IF getLastSyncData(lastSync).timestamp = 0
                       THEN FullFetches ELSE IncrementalFetches) :
            SyncIssuesHandler(TRUE, TRUE, IssueList(order), fail)

SyncIssuesTool(faults) ==
    /\ clock < MaxSyncs
    /\ SyncIssuesCall(faults)

----------------------------------------------------------------------------
(* The user and the remote side *)

EnvStep ==
    /\ envSteps < MaxEnvSteps
    /\ envSteps' = envSteps + 1
    /\ out' = Idle
    /\ UNCHANGED <<projectKey, clock>>

\* The user moves a task file into another directory.
UserMoveFile ==
    /\ EnvStep
    /\ \E k \in Keys, d \in Dirs :
         LET from == findExistingTaskFile(files, k)
         IN  /\ from # NoDir
             /\ d # from
             /\ files[Path(d, k)] = NoFile
             /\ files' = [files EXCEPT ![Path(d, k)] = files[Path(from, k)],
                                       ![Path(from, k)] = NoFile]
             /\ dirs' = dirs \cup {d}
    /\ UNCHANGED <<lastSync, remote>>

\* The user creates a directory.
UserMkdir ==
    /\ EnvStep
    /\ \E d \in Dirs \ dirs : dirs' = dirs \cup {d}
    /\ UNCHANGED <<files, lastSync, remote>>

\* The user deletes .last-sync.
UserDeleteLastSync ==
    /\ lastSync.present
    /\ lastSync' = NoLastSync
    /\ out' = Idle
    /\ UNCHANGED <<projectKey, files, dirs, remote, clock, envSteps>>

\* An issue gets another parent, or none.
RemoteSetParent ==
    /\ EnvStep
    /\ \E i \in PresentIds, p \in Ids \cup {0} :
         /\ p # i
         /\ remote[i].parentIssueId # p
         /\ remote' = [remote EXCEPT ![i].parentIssueId = p]
    /\ UNCHANGED <<files, dirs, lastSync>>

\* An issue gets another type.
RemoteSetType ==
    /\ EnvStep
    /\ \E i \in PresentIds, t \in TypeNames :
         /\ remote[i].typeName # t
         /\ remote' = [remote EXCEPT ![i].typeName = t]
    /\ UNCHANGED <<files, dirs, lastSync>>

\* An issue is created on the remote; ids grow.
RemoteCreate ==
    /\ EnvStep
    /\ \E i \in Ids, p \in PresentIds \cup {0} :
         /\ remote[i] = NoIssue
         /\ \A j \in PresentIds : j < i
         /\ remote' = [remote EXCEPT ![i] = Issue(i, p, "Task", <<"T">>, <<"d">>)]
    /\ UNCHANGED <<files, dirs, lastSync>>

\* An issue is deleted on the remote.
RemoteDelete ==
    /\ EnvStep
    /\ \E i \in PresentIds : remote' = [remote EXCEPT ![i] = NoIssue]
    /\ UNCHANGED <<files, dirs, lastSync>>

----------------------------------------------------------------------------
(* Specification: sync passes without file system faults *)

\* A project with two issues; the second has no description, and has the
\* first as its parent or no parent.
InitRemote(p) ==
    [i \in Ids |-> IF i = 3 THEN NoIssue
                   ELSE IF i = 2 THEN Issue(2, p, "Task", <<"T">>, <<>>)
                   ELSE Issue(1, 0, "Task", <<"T">>, <<"d">>)]

Init ==
    /\ projectKey \in Projects
    /\ files = [p \in Dirs \X Keys |-> NoFile]
    /\ dirs = {}
    /\ lastSync = NoLastSync
    /\ remote \in {InitRemote(p) : p \in {0, 1}}
    /\ clock = 0
    /\ envSteps = 0
    /\ out = Idle

SyncIssues == SyncIssuesTool({NoFail})

Next ==
    \/ SyncIssues
    \/ UserMoveFile
    \/ UserMkdir
    \/ UserDeleteLastSync
    \/ RemoteSetParent
    \/ RemoteSetType
    \/ RemoteCreate
    \/ RemoteDelete

Spec == Init /\ [][Next]_vars

----------------------------------------------------------------------------
(* Specification: sync passes with file system faults *)

\* The user copies a task file into another directory.
UserCopyFile ==
    /\ EnvStep
    /\ \E k \in Keys, d \in Dirs :
         LET from == findExistingTaskFile(files, k)
         IN  /\ from # NoDir
             /\ files[Path(d, k)] = NoFile
             /\ files' = [files EXCEPT ![Path(d, k)] = files[Path(from, k)]]
             /\ dirs' = dirs \cup {d}
    /\ UNCHANGED <<lastSync, remote>>

SyncIssuesFaulty == SyncIssuesTool(Faults)

NextFault ==
    \/ SyncIssuesFaulty
    \/ UserCopyFile
    \/ RemoteSetParent

SpecFault == Init /\ [][NextFault]_vars

----------------------------------------------------------------------------
(* Specification: syncIssues applied twice in a row *)

\* The user edits a task file.
EditContents ==
    {generateMarkdownContent(<<"T">>, <<>>), generateMarkdownContent(<<"U">>, <<>>),
     generateMarkdownContent(<<"U">>, <<"e">>), <<"e">>}

UserEditFile ==
    /\ EnvStep
    /\ \E k \in Keys, c \in EditContents :
         LET d == findExistingTaskFile(files, k)
         IN  /\ d # NoDir
             /\ files[Path(d, k)] # c
             /\ files' = [files EXCEPT ![Path(d, k)] = c]
    /\ UNCHANGED <<dirs, lastSync, remote>>

\* syncIssues called twice in a row with the same issue list, nothing
\* changing in between; between: the task files after the first run.
ReconcileTwice ==
    /\ clock < MaxSyncs
    /\ \E order \in IncrementalFetches \ {<<>>} :
         \E first \in {syncIssues(files, dirs, getLastSyncData(lastSync).idToKeyMap,
                                  IssueList(order), ignoreIssueTypes, NoFail)} :
            \E second \in {syncIssues(first.files, first.dirs,
                                       getLastSyncData(lastSync).idToKeyMap,
                                       IssueList(order), ignoreIssueTypes, NoFail)} :
               /\ files' = second.files
               /\ dirs' = second.dirs
               /\ out' = [op |-> "syncIssues twice", issues |-> Range(IssueList(order)),
                          first |-> PassReport(first), between |-> first.files,
                          second |-> PassReport(second)]
    /\ clock' = clock + 1
    /\ UNCHANGED <<projectKey, lastSync, remote, envSteps>>

NextTwice ==
    \/ ReconcileTwice
    \/ SyncIssues
    \/ UserMoveFile
    \/ UserEditFile
    \/ RemoteSetParent

SpecTwice == Init /\ [][NextTwice]_vars

----------------------------------------------------------------------------
(* Specification: a longer run of syncs, the remote changing in between *)

\* A child issue is created on the remote.
RemoteCreateChild ==
    /\ envSteps < MaxEnvSteps
    /\ envSteps' = envSteps + 1
    /\ \E i \in Ids, p \in PresentIds :
         /\ remote[i] = NoIssue
         /\ \A j \in PresentIds : j < i
         /\ remote' = [remote EXCEPT ![i] = Issue(i, p, "Task", <<"T">>, <<"d">>)]
    /\ UNCHANGED <<projectKey, files, dirs, lastSync, clock, out>>

\* An issue gets another parent, or none.
RemoteMoveIssue ==
    /\ envSteps < MaxEnvSteps
    /\ envSteps' = envSteps + 1
    /\ \E i \in PresentIds, p \in Ids \cup {0} :
         /\ p # i
         /\ remote[i].parentIssueId # p
         /\ remote' = [remote EXCEPT ![i].parentIssueId = p]
    /\ UNCHANGED <<projectKey, files, dirs, lastSync, clock, out>>

SyncIssuesHop ==
    /\ clock < MaxHops
    /\ SyncIssuesCall({NoFail})

NextHops ==
    \/ SyncIssuesHop
    \/ RemoteCreateChild
    \/ RemoteMoveIssue

SpecHops == Init /\ [][NextHops]_vars

----------------------------------------------------------------------------
(* update-issues *)

\* A remote fault of one call: getIssue or updateIssue fails for one key.
NoRemoteFail == [key |-> NoKey, op |-> "none"]
RemoteFaults == {NoRemoteFail} \cup [key : Keys, op : {"get", "update"}]

NoField == <<"UNDEFINED">>

\* BacklogClient.updateIssue: the PATCH body built from the updates;
\* "No updates provided" is thrown when neither field is truthy.
UpdateThrows(updates) ==
    (updates.summary = NoField \/ updates.summary = <<>>)
    /\ (updates.description = NoField \/ updates.description = <<>>)

UpdateData(updates) ==
    [summary |-> IF updates.summary # NoField /\ updates.summary # <<>>
                 THEN updates.summary ELSE NoField,
     description |-> updates.description]

ApplyPatch(issue, data) ==
    [issue EXCEPT !.summary = IF data.summary # NoField THEN data.summary ELSE @,
                  !.description = IF data.description # NoField THEN data.description ELSE @]

\* Variant: the guard is missing.
DescriptionSkipped_Never(localDesc, backlogDesc) == FALSE

\* `if (localDesc !== backlogDesc) { if (!localDesc && backlogDesc)`: an empty
\* local description never replaces a non-empty remote one.
DescriptionSkipped(localDesc, backlogDesc) ==
    localDesc # backlogDesc /\ localDesc = <<>> /\ backlogDesc # <<>>

\* Body of the loop of update-issues for one key.  st: the remote, the
\* result lines, the keys getIssue was called for and the PATCH requests sent
\* so far; local: what readTaskFile returns for each key (the call changes no
\* task file).
UpdateOne(st, issueKey, local, rfail) ==
    LET taskData == local[issueKey]
        originalIssue == st.remote[IdOf(issueKey)]
        titleChanged == taskData.title # <<>> /\ taskData.title # originalIssue.summary
        localDesc == taskData.description
        backlogDesc == originalIssue.description
        skipped == DescriptionSkipped(localDesc, backlogDesc)
        descChanged == localDesc # backlogDesc /\ ~skipped
        changes == [summary |-> IF titleChanged THEN taskData.title ELSE NoField,
                    description |-> IF descChanged THEN localDesc ELSE NoField]
        changesList ==
            (IF titleChanged THEN <<"Title updated">> ELSE <<>>) \o
            (IF skipped THEN <<"Description update skipped">>
             ELSE IF descChanged /\ backlogDesc # <<>> THEN <<"Description updated">>
             ELSE IF descChanged THEN <<"Description added">>
             ELSE <<>>)
        Result(kind, list) == [key |-> issueKey, kind |-> kind, changes |-> list]
    IN  IF ~taskData.found
        THEN [st EXCEPT !.results = Append(@, Result("file not found", <<>>))]
        ELSE IF originalIssue = NoIssue \/ (rfail.key = issueKey /\ rfail.op = "get")
        THEN [st EXCEPT !.results = Append(@, Result("fetch failed", <<>>)),
                        !.gets = Append(@, issueKey)]
        ELSE IF ~titleChanged /\ ~descChanged
        THEN [st EXCEPT !.results = Append(@, Result("no changes", <<>>)),
                        !.gets = Append(@, issueKey)]
        ELSE IF UpdateThrows(changes) \/ (rfail.key = issueKey /\ rfail.op = "update")
        THEN [st EXCEPT !.results = Append(@, Result("update failed", <<>>)),
                        !.gets = Append(@, issueKey),
                        !.sent = IF UpdateThrows(changes) THEN @
                                 ELSE Append(@, [key |-> issueKey, data |-> UpdateData(changes),
                                                 ok |-> FALSE])]
        ELSE [st EXCEPT !.remote[IdOf(issueKey)] = ApplyPatch(@, UpdateData(changes)),
                        !.results = Append(@, Result("updated", changesList)),
                        !.gets = Append(@, issueKey),
                        !.sent = Append(@, [key |-> issueKey, data |-> UpdateData(changes),
                                            ok |-> TRUE])]

\* Variant: the first failure ends the loop.
RECURSIVE UpdateLoop_StopAtError(_, _, _, _, _)
UpdateLoop_StopAtError(st, issueKeys, i, local, rfail) ==
    IF i > Len(issueKeys) THEN st
    ELSE IF \E n \in 1..Len(st.results) :
                st.results[n].kind \in {"file not found", "fetch failed", "update failed"}
         THEN st
    ELSE UpdateLoop_StopAtError(UpdateOne(st, issueKeys[i], local, rfail),
                                issueKeys, i + 1, local, rfail)

\* The loop of update-issues.
RECURSIVE UpdateLoop(_, _, _, _, _)
UpdateLoop(st, issueKeys, i, local, rfail) ==
    IF i > Len(issueKeys) THEN st
    ELSE UpdateLoop(UpdateOne(st, issueKeys[i], local, rfail), issueKeys, i + 1, local, rfail)

\* The issueKeys arguments: lists of distinct keys.
KeyLists ==
    {s \in UNION {[1..n -> Keys] : n \in 1..MaxKeysPerCall} :
        \A i, j \in 1..Len(s) : i # j => s[i] # s[j]}

\* The handler of update-issues.
UpdateIssuesHandler(issueKeys, rfail, local) ==
    LET st == UpdateLoop([remote |-> remote, results |-> <<>>, gets |-> <<>>,
                          sent |-> <<>>],
                         issueKeys, 1, local, rfail)
    IN  /\ remote' = st.remote
        /\ out' = [op |-> "update-issues", issueKeys |-> issueKeys, rfail |-> rfail,
                   before |-> remote, results |-> st.results, gets |-> st.gets,
                   sent |-> st.sent]
        /\ UNCHANGED <<projectKey, files, dirs, lastSync, clock, envSteps>>

UpdateIssues ==
    \E local \in {[k \in Keys |-> readTaskFile(files, k)]} :
        \E issueKeys \in KeyLists :
            \E rfail \in {f \in RemoteFaults : f.key \in Range(issueKeys) \cup {NoKey}} :
                UpdateIssuesHandler(issueKeys, rfail, local)

\* The full sync that brings the task files in, without faults.
FirstSync ==
    /\ clock = 0
    /\ SyncIssues

NextUpdate ==
    \/ FirstSync
    \/ UserEditFile
    \/ UpdateIssues

SpecUpdate == Init /\ [][NextUpdate]_vars

----------------------------------------------------------------------------
(* Specification: a sync pass that stops midway, and the next sync *)

\* Where a pass stops: after the file operations of the first `done` issues
\* of the filtered list and `ops` operations of the next one (of ensureDir,
\* writeFile for a create, of ensureDir, writeFile, rm for a move), or, the
\* loop complete, after the orphan cleanup has removed the files of `removed`.
SyncOnePartial(st, issue, folderMap, ops) ==
    LET k == issue.issueKey
        existingDir == findExistingTaskFile(st.files, k)
        targetFolder == IF folderMap[k] # NoDir THEN folderMap[k] ELSE "others"
    IN  IF ops = 0 \/ existingDir = targetFolder THEN st
        ELSE IF existingDir = NoDir \/ ops = 1
             THEN [st EXCEPT !.dirs = @ \cup {targetFolder}]
             ELSE [st EXCEPT !.dirs = @ \cup {targetFolder},
                             !.files[Path(targetFolder, k)] = st.files[Path(existingDir, k)]]

\* The orphans of a full sync: the keys that cleanupRemovedIssues removes.
Orphans(fs, currentIssueKeys) ==
    {p[2] : p \in {q \in getExistingTaskFiles(fs) : q[2] \notin currentIssueKeys}}

CrashPoints(fs, issues, full) ==
    LET n == Len(filterIgnoredIssueTypes(issues, ignoreIssueTypes))
    IN  [done : 0..(n - 1), ops : 0..2, removed : {{}}] \cup
        [done : {n}, ops : {0},
         removed : IF full
                   THEN SUBSET Orphans(fs, {x.issueKey : x \in Range(issues)})
                   ELSE {{}}]

\* The task root that syncIssues and the orphan cleanup leave when the pass
\* stops at a crash point.
CrashedPass(fs, ds, idToKeyMap, issues, crash) ==
    LET filteredIssues == filterIgnoredIssueTypes(issues, ignoreIssueTypes)
        issueTreeMap == buildIssueTreeMap(filteredIssues, idToKeyMap)
        issueToFolderMap == matchCustomFoldersWithIssues(issueTreeMap, fs, ds)
        loop == SyncLoop(PassStart(fs, ds), SubSeq(filteredIssues, 1, crash.done), 1,
                         issueToFolderMap, NoFail)
        st == IF crash.done < Len(filteredIssues)
              THEN SyncOnePartial(loop, filteredIssues[crash.done + 1],
                                  issueToFolderMap, crash.ops)
              ELSE loop
    IN  [files |-> [p \in Dirs \X Keys |->
                       IF p[2] \in crash.removed /\ p[1] = findExistingTaskFile(st.files, p[2])
                       THEN NoFile ELSE st.files[p]],
         dirs |-> st.dirs]

\* The task root and the sync state that the handler leaves when the pass
\* runs to its end.
CompletedSync(fs, ds, ls, timestamp, issues) ==
    LET pass == syncIssues(fs, ds \cup {"others"}, getLastSyncData(ls).idToKeyMap,
                           issues, ignoreIssueTypes, NoFail)
    IN  [files |-> IF CleanupEnabled(getLastSyncData(ls).timestamp)
                   THEN cleanupRemovedIssues(pass.files,
                                             {x.issueKey : x \in Range(issues)}, NoFail)
                   ELSE pass.files,
         lastSync |-> saveLastSyncTime(timestamp, issues)]

\* sync-issues stops at a crash point, before .last-sync is written.
\* direct: what the call would have left, had it not stopped.
CrashedSync ==
    /\ clock < MaxSyncs
    /\ \E order \in (IF getLastSyncData(lastSync).timestamp = 0
                      THEN FullFetches ELSE IncrementalFetches) \ {<<>>} :
         \E crash \in CrashPoints(files, IssueList(order),
                                   getLastSyncData(lastSync).timestamp = 0) :
            \E partial \in {CrashedPass(files, dirs \cup {"others"},
                                        getLastSyncData(lastSync).idToKeyMap,
                                        IssueList(order), crash)} :
               /\ files' = partial.files
               /\ dirs' = partial.dirs
               /\ out' = [op |-> "crashed", order |-> order, crash |-> crash,
                          before |-> files,
                          direct |-> CompletedSync(files, dirs, lastSync, clock + 1,
                                                   IssueList(order))]
    /\ clock' = clock + 1
    /\ UNCHANGED <<projectKey, lastSync, remote, envSteps>>

\* sync-issues is run again; the remote has not changed and answers as it
\* did.
SyncIssuesRerun ==
    /\ out.op = "crashed"
    /\ SyncIssuesHandler(TRUE, TRUE, IssueList(out.order), NoFail)

SyncBeforeCrash ==
    /\ out.op # "crashed"
    /\ SyncIssues

NextCrash ==
    \/ CrashedSync
    \/ SyncIssuesRerun
    \/ SyncBeforeCrash
    \/ UserEditFile
    \/ RemoteSetParent
    \/ RemoteDelete
    \/ UserDeleteLastSync

SpecCrash == Init /\ [][NextCrash]_vars

----------------------------------------------------------------------------
(* Specification: what sync-issues fetches, with the time of each update *)

\* since.toISOString().split("T")[0]: the calendar day of a time.
FormatDate(t) == t \div TicksPerDay

\* The answer of the remote to updatedSince = date: the issues updated on
\* that day or later.
IssuesUpdatedOnOrAfter(date) ==
    {i \in PresentIds : FormatDate(remote[i].updated) >= date}

\* Variant: the remote is asked for the issues updated at or after the time
\* itself.
getIssuesUpdatedSince_Exact(since) ==
    AllOrderings[{i \in PresentIds : remote[i].updated >= since}]

\* BacklogClient.getIssuesUpdatedSince: getIssues with updatedSince set to
\* the day of since.
getIssuesUpdatedSince(since) ==
    AllOrderings[IssuesUpdatedOnOrAfter(FormatDate(since))]

\* sync-issues with a remote that answers: getIssues when no timestamp is
\* persisted, getIssuesUpdatedSince(lastSyncTime) otherwise.
SyncIssuesFetch ==
    /\ clock < MaxTime
    /\ \E order \in (IF getLastSyncData(lastSync).timestamp = 0
                      THEN FullFetches
                      ELSE getIssuesUpdatedSince(getLastSyncData(lastSync).timestamp)) :
         SyncIssuesHandler(TRUE, TRUE, IssueList(order), NoFail)

\* Time passes.
Tick ==
    /\ clock < MaxTime
    /\ clock' = clock + 1
    /\ out' = Idle
    /\ UNCHANGED <<projectKey, files, dirs, lastSync, remote, envSteps>>

\* An issue is changed on the remote, now.
RemoteTouch ==
    /\ EnvStep
    /\ \E i \in PresentIds :
         /\ remote[i].updated # clock
         /\ remote' = [remote EXCEPT ![i].updated = clock]
    /\ UNCHANGED <<files, dirs, lastSync>>

NextFetch ==
    \/ SyncIssuesFetch
    \/ Tick
    \/ RemoteTouch
    \/ UserDeleteLastSync

SpecFetch == Init /\ [][NextFetch]_vars

----------------------------------------------------------------------------
(* Specification: a task file written from {title, description}, then read *)

\* Characters of a title or a description: a letter, a blank, a line break
\* and the heading mark.
Chars == {"a", " ", "\n", "#"}

Strings(n) == UNION {[1..m -> Chars] : m \in 0..n}

\* The task root is empty; a title and a description are given.
InitFormat ==
    /\ projectKey \in Projects
    /\ files = [p \in Dirs \X Keys |-> NoFile]
    /\ dirs = {"others"}
    /\ lastSync = NoLastSync
    /\ remote = InitRemote(0)
    /\ clock = 0
    /\ envSteps = 0
    /\ out \in [op : {"task"}, title : Strings(MaxTitleLen),
                description : Strings(MaxDescLen)]

\* The create branch of syncIssues for one issue: the generated content is
\* written to others/{issueKey}.md.
WriteTaskFile ==
    /\ out.op = "task"
    /\ files' = [files EXCEPT ![Path("others", KeyOf(1))] =
                     generateMarkdownContent(out.title, out.description)]
    /\ out' = [out EXCEPT !.op = "written"]
    /\ UNCHANGED <<projectKey, dirs, lastSync, remote, clock, envSteps>>

\* readTaskFile of that key.
ReadTaskFile ==
    /\ out.op = "written"
    /\ out' = [op |-> "read", title |-> out.title, description |-> out.description,
               taskData |-> readTaskFile(files, KeyOf(1))]
    /\ UNCHANGED <<projectKey, files, dirs, lastSync, remote, clock, envSteps>>

NextFormat ==
    \/ WriteTaskFile
    \/ ReadTaskFile

SpecFormat == InitFormat /\ [][NextFormat]_vars

----------------------------------------------------------------------------
(* Specification: a .last-sync file that an older version or the user wrote *)

\* The contents of such a file: the texts of a digit, a letter, a blank and
\* the quote, and the JSON objects that lack a field.
LastSyncFiles ==
    {[present |-> TRUE, text |-> s] :
        s \in UNION {[1..m -> {"1", "Z", " ", "\""}] : m \in 0..MaxTextLen}}
    \cup {[present |-> TRUE], [present |-> TRUE, timestamp |-> 1],
          [present |-> TRUE, idToKeyMap |-> <<KeyOf(1)>>]}

\* .last-sync is replaced by such a content, once.
UserWriteLastSync ==
    /\ EnvStep
    /\ envSteps = 0
    /\ lastSync' \in LastSyncFiles
    /\ UNCHANGED <<files, dirs, remote>>

\* sync-issues with a remote that answers and a task root that can be
\* written.
SyncIssuesReachable ==
    /\ clock < MaxSyncs
    /\ \E order \in (IF getLastSyncData(lastSync).timestamp = 0
                      THEN FullFetches ELSE IncrementalFetches) :
         SyncIssuesHandler(TRUE, TRUE, IssueList(order), NoFail)

NextLegacy ==
    \/ SyncIssuesReachable
    \/ UserWriteLastSync
    \/ RemoteDelete

SpecLegacy == Init /\ [][NextLegacy]_vars

----------------------------------------------------------------------------
(* Specification: one call of syncIssues, over task roots and issue lists *)

\* A task root and a project as earlier calls and the user can have left
\* them: the first issue is of any type, the second and the third may be
\* children; each task file lies in one of the directories or is missing;
\* the renamed folder of the first issue may exist; .last-sync is missing or
\* knows the first issue, or the first two.
InitPass ==
    /\ projectKey \in Projects
    /\ \E loc \in [Ids -> {NoDir, "others", "sprint-3", KeyOf(1), FeatureDir}] :
          /\ loc[3] \in {NoDir, "others"}
          /\ files = [p \in Dirs \X Keys |->
                         IF loc[IdOf(p[2])] = p[1]
                         THEN generateMarkdownContent(<<"T">>, <<>>) ELSE NoFile]
          /\ \E extra \in SUBSET {FeatureDir} :
                dirs = ({loc[i] : i \in Ids} \ {NoDir}) \cup {"others"} \cup extra
    /\ lastSync \in {NoLastSync} \cup
                     {[present |-> TRUE, timestamp |-> 1,
                       idToKeyMap |-> [id \in 1..n |-> KeyOf(id)]] : n \in 1..2}
    /\ remote \in {[i \in Ids |->
                        CASE i = 1 -> Issue(1, 0, t, <<"T">>, <<"d">>)
                          [] i = 2 -> Issue(2, p2, "Task", <<"T">>, <<>>)
                          [] OTHER -> IF p3 = 3 THEN NoIssue
                                      ELSE Issue(3, p3, "Task", <<"T">>, <<"d">>)] :
                    t \in {"Task", "Bug", "bug"}, p2 \in {0, 1}, p3 \in 0..3}
    /\ clock = 1
    /\ envSteps = 0
    /\ out = Idle

\* TaskFileManager.syncIssues, once, on a list of issues of the project;
\* before, dirsBefore: the task root at the start of the call.
SyncPass ==
    /\ out = Idle
    /\ \E order \in IncrementalFetches \ {<<>>} :
         \E pass \in {syncIssues(files, dirs, getLastSyncData(lastSync).idToKeyMap,
                                 IssueList(order), ignoreIssueTypes, NoFail)} :
            /\ files' = pass.files
            /\ dirs' = pass.dirs
            /\ out' = [op |-> "syncIssues", order |-> order, before |-> files,
                       dirsBefore |-> dirs, pass |-> PassReport(pass)]
    /\ UNCHANGED <<projectKey, lastSync, remote, clock, envSteps>>

SpecPass == InitPass /\ [][SyncPass]_vars

----------------------------------------------------------------------------
(* Specification: bulk-create-tasks *)

\* Names of temporary task files, {parent key}-{number}, all of the first
\* issue: what the user writes before the issue exists on the remote.
TempOf(n) ==
    IF projectKey = "A" THEN <<"A-1-1", "A-1-2">>[n] ELSE <<"A2-1-1", "A2-1-2">>[n]
TempNames == {TempOf(1), TempOf(2)}

\* new RegExp(`^${parentFolder}-\\d+$`) on the name of a file, less its .md
MatchesTempPattern(parentFolder, name) == parentFolder = KeyOf(1) /\ name \in TempNames

\* findParentTaskFolders: the directories of the task root whose name matches
\* /^[A-Z]+-\d+$/, in readdir order.
findParentTaskFolders(ds) ==
    SelectSeq(DirOrder, LAMBDA d : d \in ds /\ MatchesKeyPattern(d))

\* findTemporaryTaskFiles: the files of the folder whose name matches the
\* pattern of temporary names, each with its parsed title and description.
findTemporaryTaskFiles(fs, parentFolder) ==
    LET names == SelectSeq(<<TempOf(1), TempOf(2)>>,
                           LAMBDA t : /\ MatchesTempPattern(parentFolder, t)
                                      /\ fs[Path(parentFolder, t)] # NoFile)
    IN  [i \in 1..Len(names) |->
            [fileName |-> names[i],
             content |-> ParseTaskFile(fs[Path(parentFolder, names[i])])]]

\* createTaskFile: "# " + title + "\n\n", then the description unless it is
\* blank.
createTaskFile(fs, issueKey, parentFolder, title, description) ==
    [fs EXCEPT ![Path(parentFolder, issueKey)] =
        <<"#", " ">> \o title \o <<"\n", "\n">> \o
        (IF description # <<>> /\ Trim(description) # <<>> THEN description ELSE <<>>)]

\* The id the remote gives to the next issue: ids are never given twice, and
\* id 1 has been given.
NextId(rem) == CHOOSE i \in Ids \ {1} : rem[i] = NoIssue /\ \A j \in 2..(i - 1) : rem[j] # NoIssue

\* A fault of one run: the file of the run (counted over the whole run) at
\* which an operation throws, and the operation; at 0 for none.
NoBulkFault == [at |-> 0, op |-> "none"]
BulkFaults ==
    {NoBulkFault} \cup [at : 1..2, op : {"createIssue", "rename", "createTaskFile"}]

\* The loop over the temporary files of one parent folder, from file i on:
\* createIssue, renameTaskFile (fs.rename replaces a file that has the new
\* name), createTaskFile.  An operation that throws ends the steps for the
\* file: the failure is caught and counted, and what the earlier steps did
\* stays.  posted: the issues that createIssue created, created: the files
\* the run reports as created.
RECURSIVE BulkFileLoop(_, _, _, _, _, _)
BulkFileLoop(st, parentFolder, parentIssueId, tempFiles, i, fail) ==
    IF i > Len(tempFiles) THEN st
    ELSE
      LET fileName == tempFiles[i].fileName
          content == tempFiles[i].content
          id == NextId(st.remote)
          summary == IF content.title # <<>> THEN content.title
                     ELSE <<"Task from ", fileName>>
          failed(op) == st.calls + 1 = fail.at /\ fail.op = op
          entry == [fileName |-> fileName, folder |-> parentFolder, id |-> id]
          renamed == [st.files EXCEPT
                         ![Path(parentFolder, KeyOf(id))] = st.files[Path(parentFolder, fileName)],
                         ![Path(parentFolder, fileName)] = NoFile]
          st0 == [st EXCEPT !.calls = @ + 1]
          st1 == [st0 EXCEPT
                    !.remote[id] = Issue(id, parentIssueId, "Task", summary,
                                         content.description),
                    !.posted = Append(@, entry)]
          st2 == [st1 EXCEPT !.files = renamed]
          st3 == [st2 EXCEPT
                    !.files = createTaskFile(renamed, KeyOf(id), parentFolder,
                                             summary, content.description),
                    !.created = Append(@, entry)]
          caught(s) == [s EXCEPT !.errors = @ + 1]
          stN == IF failed("createIssue") THEN caught(st0)
                 ELSE IF failed("rename") THEN caught(st1)
                 ELSE IF failed("createTaskFile") THEN caught(st2)
                 ELSE st3
      IN  BulkFileLoop(stN, parentFolder, parentIssueId, tempFiles, i + 1, fail)

\* The loop over the parent folders, from folder i on: a folder without
\* temporary files is skipped; getIssue(parentFolder) gives the parent id,
\* and when it fails the issues are created without parent.
RECURSIVE BulkFolderLoop(_, _, _, _)
BulkFolderLoop(st, parentFolders, i, fail) ==
    IF i > Len(parentFolders) THEN st
    ELSE
      LET parentFolder == parentFolders[i]
          tempFiles == findTemporaryTaskFiles(st.files, parentFolder)
          parentIssue == st.remote[IdOf(parentFolder)]
          parentIssueId == IF parentIssue # NoIssue THEN parentIssue.id ELSE 0
          st1 == IF Len(tempFiles) = 0 THEN st
                 ELSE BulkFileLoop([st EXCEPT !.standalone =
                                        @ \cup (IF parentIssue = NoIssue THEN {parentFolder} ELSE {})],
                                   parentFolder, parentIssueId, tempFiles, 1, fail)
      IN  BulkFolderLoop(st1, parentFolders, i + 1, fail)

\* The handler of bulk-create-tasks.  out: the answer (result), the task
\* files and the issues before the call, the issues created, in order, the
\* number of errors and the folders whose parent issue was not found.
BulkCreateTasksHandler(isConnected, fail) ==
    LET ds0 == dirs \cup {"others"}
        parentFolders == findParentTaskFolders(ds0)
        st0 == [files |-> files, remote |-> remote, created |-> <<>>, posted |-> <<>>, calls |-> 0,
                errors |-> 0, standalone |-> {}]
        st == BulkFolderLoop(st0, parentFolders, 1, fail)
        report(result, s) ==
            [op |-> "bulk-create-tasks", result |-> result, before |-> files,
             dirsBefore |-> dirs, issuesBefore |-> PresentIds, created |-> s.created,
             posted |-> s.posted,
             errors |-> s.errors, standalone |-> s.standalone]
    IN  /\ UNCHANGED <<projectKey, lastSync, clock, envSteps>>
        /\ IF ~isConnected THEN
              /\ UNCHANGED <<files, dirs, remote>>
              /\ out' = report("not connected", st0)
           ELSE IF Len(parentFolders) = 0 THEN
              /\ dirs' = ds0
              /\ UNCHANGED <<files, remote>>
              /\ out' = report("no parent folders", st0)
           ELSE
              /\ dirs' = ds0
              /\ files' = st.files
              /\ remote' = st.remote
              /\ out' = report("complete", st)

\* The task root before the call: up to two temporary files, in the folder
\* of the first issue, in its renamed folder or in the folder of another
\* issue, with or without a title line; task files of issues; a file the
\* user named with a key that no issue has yet.  The remote has the first
\* issue, unless it was deleted, and possibly a second one; there are as many
\* free ids as temporary files.
InitBulk ==
    /\ projectKey \in Projects
    /\ \E present \in [1..2 -> BOOLEAN],
          loc \in [1..2 -> {NoDir, KeyOf(1), KeyOf(2), FeatureDir}],
          body \in [1..2 -> {generateMarkdownContent(<<"T">>, <<"d">>), <<"d">>}],
          real \in [Ids -> {NoDir, KeyOf(1)}] :
         /\ Cardinality({n \in 1..2 : loc[n] # NoDir}) <=
                Cardinality({i \in 2..3 : i = 3 \/ ~present[2]})
         /\ real[2] # NoDir => present[2]
         /\ remote = [i \in Ids |->
                         IF i \in 1..2 /\ present[i]
                         THEN Issue(i, 0, "Task", <<"T">>, <<>>) ELSE NoIssue]
         /\ files = [p \in Dirs \X (Keys \cup TempNames) |->
                        IF \E n \in 1..2 : p = Path(loc[n], TempOf(n))
                        THEN body[CHOOSE n \in 1..2 : p = Path(loc[n], TempOf(n))]
                        ELSE IF \E i \in Ids : p = Path(real[i], KeyOf(i))
                        THEN generateMarkdownContent(<<"T">>, <<>>)
                        ELSE NoFile]
         /\ dirs = {"others"} \cup ({loc[n] : n \in 1..2} \ {NoDir})
                             \cup ({real[i] : i \in Ids} \ {NoDir})
    /\ lastSync = NoLastSync
    /\ clock = 1
    /\ envSteps = 0
    /\ out = Idle

\* One call of the tool; the remote is reachable or not, and at most one
\* operation fails.
BulkCreateTasks ==
    /\ out = Idle
    /\ \E isConnected \in BOOLEAN, fail \in BulkFaults :
         BulkCreateTasksHandler(isConnected, fail)

SpecBulk == InitBulk /\ [][BulkCreateTasks]_vars

----------------------------------------------------------------------------
(* Specification: runs of bulk-create-tasks and sync-issues, in any order *)

\* A call of bulk-create-tasks, after any call; the remote has an id left
\* for every temporary file the run can find.
BulkCreateTasksAgain ==
    /\ Cardinality({i \in Ids \ {1} : remote[i] = NoIssue}) >=
           Cardinality({t \in TempNames : files[Path(KeyOf(1), t)] # NoFile})
    /\ \E isConnected \in BOOLEAN, fail \in BulkFaults :
         BulkCreateTasksHandler(isConnected, fail)

NextTools ==
    \/ BulkCreateTasksAgain
    \/ SyncIssuesFaulty

SpecTools == InitBulk /\ [][NextTools]_vars

----------------------------------------------------------------------------
(* Specification: BacklogClient.getIssues, page by page *)

\* In this specification remote is the list of the project's issues in the
\* order of the query (sort "updated", order "desc"), as issue numbers; the
\* page size PageLimit stands for the limit of 100 of the code.

\* The answer of the remote to a request with count and offset.
RemotePage(offset, count) ==
    SubSeq(remote, offset + 1,
           IF offset + count <= Len(remote) THEN offset + count ELSE Len(remote))

\* Variant: the loop ends on an empty page only.
getIssuesStep_UntilEmpty(st, issues, limit) ==
    [st EXCEPT !.requests = Append(@, st.offset),
               !.pages = Append(@, issues),
               !.allIssues = @ \o issues,
               !.done = Len(issues) = 0,
               !.offset = IF Len(issues) = 0 THEN @ ELSE @ + limit]

\* One turn of the loop of getIssues, the answer received: push the issues,
\* leave the loop when the page is short, else move the offset on.
getIssuesStep(st, issues, limit) ==
    [st EXCEPT !.requests = Append(@, st.offset),
               !.pages = Append(@, issues),
               !.allIssues = @ \o issues,
               !.done = Len(issues) < limit,
               !.offset = IF Len(issues) < limit THEN @ ELSE @ + limit]

InitPages ==
    /\ projectKey \in Projects
    /\ files = [p \in Dirs \X Keys |-> NoFile]
    /\ dirs = {}
    /\ lastSync = NoLastSync
    /\ remote \in {[i \in 1..n |-> n + 1 - i] : n \in 0..MaxRemoteIssues}
    /\ clock = 0
    /\ envSteps = 0
    /\ out = Idle

\* getIssues is called: offset 0, nothing received.
GetIssuesStart ==
    /\ out = Idle
    /\ out' = [op |-> "getIssues", offset |-> 0, requests |-> <<>>, pages |-> <<>>,
               allIssues |-> <<>>, done |-> FALSE, failed |-> FALSE]
    /\ UNCHANGED <<projectKey, files, dirs, lastSync, remote, clock, envSteps>>

\* One request: the remote answers with a page, or the request fails and
\* getIssues throws.
GetIssuesPage ==
    /\ out.op = "getIssues"
    /\ ~out.done
    /\ \E ok \in BOOLEAN :
         out' = IF ok THEN getIssuesStep(out, RemotePage(out.offset, PageLimit), PageLimit)
                ELSE [out EXCEPT !.requests = Append(@, out.offset),
                                 !.done = TRUE, !.failed = TRUE]
    /\ UNCHANGED <<projectKey, files, dirs, lastSync, remote, clock, envSteps>>

\* An issue is created, or updated, on the remote: it is the first of the
\* list from then on.
RemoteGrow ==
    /\ envSteps < MaxEnvSteps
    /\ envSteps' = envSteps + 1
    /\ \/ /\ Len(remote) < MaxRemoteIssues
          /\ remote' = <<Len(remote) + 1>> \o remote
       \/ \E i \in 2..Len(remote) :
             remote' = <<remote[i]>> \o SubSeq(remote, 1, i - 1)
                                     \o SubSeq(remote, i + 1, Len(remote))
    /\ UNCHANGED <<projectKey, files, dirs, lastSync, clock, out>>

NextPages ==
    \/ GetIssuesStart
    \/ GetIssuesPage
    \/ RemoteGrow

\* The loop goes on as long as it can: a request is answered or fails.
SpecPages == InitPages /\ [][NextPages]_vars /\ WF_vars(GetIssuesPage)

----------------------------------------------------------------------------
(* Specification: sync-issues, then update-issues, over remote texts *)

\* The task root is empty; the remote has one issue, with any summary and
\* any description over Chars.
InitPush ==
    /\ projectKey \in Projects
    /\ files = [p \in Dirs \X Keys |-> NoFile]
    /\ dirs = {}
    /\ lastSync = NoLastSync
    /\ \E s \in Strings(MaxTitleLen), d \in Strings(MaxDescLen) :
          remote = [i \in Ids |-> IF i = 1 THEN Issue(1, 0, "Task", s, d) ELSE NoIssue]
    /\ clock = 0
    /\ envSteps = 0
    /\ out = Idle

\* update-issues is called right after the sync.
PushAfterSync ==
    /\ out.op = "sync-issues"
    /\ UpdateIssues

NextPush ==
    \/ FirstSync
    \/ PushAfterSync

SpecPush == InitPush /\ [][NextPush]_vars

----------------------------------------------------------------------------
(* Properties *)

\* The step is a sync-issues call that fetched issues.
SyncStep == out'.op = "sync-issues" /\ clock' # clock

FetchedKeys(report) == {x.issueKey : x \in report.issues}

FilteredKeys(report) ==
    {x.issueKey : x \in {y \in report.issues : y.typeName \notin ignoreIssueTypes}}

\* The directories that hold a file named {k}.md.
DirsOf(fs, k) == {d \in Dirs : fs[Path(d, k)] # NoFile}

\* C1: a fetched issue whose only task file lies in a custom directory at the
\* start of a sync pass has its file in that same directory, and in no other,
\* at the end of the pass, whatever its parent and children are.
C1_CustomFolderSticky ==
    [][SyncStep =>
        \A k \in FetchedKeys(out') :
            \A d \in Dirs :
                (DirsOf(files, k) = {d} /\ IsCustomDir(d)) => DirsOf(files', k) = {d}]_vars

\* C2: a first-ever sync (no .last-sync, no task file, no user directory) that
\* fetches exactly A-1 without parent and A-2 with parent A-1, in either
\* order, ends with A-1/A-1.md and A-1/A-2.md and nothing under others/.
C2_FirstSyncGroupsChildWithParent ==
    [][(/\ SyncStep
        /\ out'.result = "ok"
        /\ ~lastSync.present
        /\ \A p \in Dirs \X Keys : files[p] = NoFile
        /\ dirs \subseteq {"others"}
        /\ FetchedKeys(out') = {"A-1", "A-2"}
        /\ remote[1].parentIssueId = 0
        /\ remote[2].parentIssueId = 1)
       => /\ DirsOf(files', "A-1") = {"A-1"}
          /\ DirsOf(files', "A-2") = {"A-1"}]_vars

\* The folders assigned to the issues of a list of ids, in the current task
\* root and with the persisted idToKeyMap.
AssignedFolders(order) ==
    LET tree == buildIssueTreeMap(filterIgnoredIssueTypes(IssueList(order), ignoreIssueTypes),
                                  getLastSyncData(lastSync).idToKeyMap)
        map == matchCustomFoldersWithIssues(tree, files, dirs \cup {"others"})
    IN  [i \in Range(order) |-> map[KeyOf(i)]]

\* C3: for a fixed file tree and idToKeyMap, every order of the same issues
\* gives every issue the same folder.
C3_AssignmentOrderIndependent ==
    \A S \in SUBSET PresentIds :
        \A o1, o2 \in AllOrderings[S] : AssignedFolders(o1) = AssignedFolders(o2)

\* C4: the second of two successive runs of syncIssues over the same issue
\* list moves no file and writes no file.
C4_SecondRunWritesNothing ==
    out.op = "syncIssues twice" =>
        /\ out.second.moved = {}
        /\ out.second.created = {}
        /\ out.second.rewritten = {}

\* C4, as the code has it: from a task root with at most one file per key,
\* the second of two successive runs over the same issue list moves no file
\* and creates none, so that every file keeps its path; it writes the file of
\* every issue of a non-ignored type again, and with the content the first
\* run left when the keys have the form that the file scan recognises.
C4_SecondRunMovesNothing ==
    out.op = "syncIssues twice" =>
        /\ out.second.moved = {}
        /\ out.second.created = {}
        /\ out.second.rewritten = FilteredKeys(out)
        /\ \A k \in Keys : DirsOf(files, k) = DirsOf(out.between, k)
        /\ (\A k \in Keys : MatchesKeyPattern(k)) => files = out.between

\* C4 witness: the first run created a task file and moved or rewrote
\* another, and the second run rewrote task files.
C4_Witness ==
    /\ out.op = "syncIssues twice"
    /\ out.first.created # {}
    /\ out.first.moved \cup out.first.rewritten # {}
    /\ out.second.rewritten # {}

\* C5: an incremental sync leaves, for every key that is not fetched, each
\* path as it was (a file keeps its content, a missing file stays missing),
\* and removes no orphan.
C5_IncrementalLeavesOthersAlone ==
    [][(SyncStep /\ getLastSyncData(lastSync).timestamp # 0) =>
        /\ \A k \in Keys \ FetchedKeys(out') :
               \A d \in Dirs : files'[Path(d, k)] = files[Path(d, k)]
        /\ out'.removed = {}]_vars

\* C5 witness: an incremental sync processed fetched issues while the task
\* file of an issue deleted on the remote, which was not fetched, stayed.
C5_Witness ==
    /\ out.op = "sync-issues"
    /\ out.result = "ok"
    /\ ~out.full
    /\ out.pass.rewritten \cup out.pass.created # {}
    /\ \E k \in Keys \ FetchedKeys(out) :
         remote[IdOf(k)] = NoIssue /\ DirsOf(files, k) # {}

\* C6: after a completed full sync no task file remains for a key outside
\* the filtered issue set (the fetched issues minus those of ignored types).
C6_NoFileOutsideFilteredSet ==
    (out.op = "sync-issues" /\ out.result = "ok" /\ out.full) =>
        \A k \in Keys \ FilteredKeys(out) : DirsOf(files, k) = {}

\* C7: a sync pass, full or incremental, leaves every path of a fetched issue
\* of an ignored type as it was: no file is created for it, and an existing
\* file is neither moved, rewritten nor deleted.
C7_IgnoredTypeUntouched ==
    [][SyncStep =>
        \A x \in out'.issues :
            x.typeName \in ignoreIssueTypes =>
                /\ \A d \in Dirs : files'[Path(d, x.issueKey)] = files[Path(d, x.issueKey)]
                /\ x.issueKey \notin out'.pass.created \cup out'.pass.moved
                                     \cup out'.pass.rewritten \cup out'.removed]_vars

\* C7 witness: a full sync, orphan cleanup included, completed with a fetched
\* issue of an ignored type whose task file exists.
C7_Witness ==
    /\ out.op = "sync-issues"
    /\ out.result = "ok"
    /\ out.full
    /\ \E x \in out.issues :
         x.typeName \in ignoreIssueTypes /\ DirsOf(files, x.issueKey) # {}

\* Key number i of the last update-issues call is a key whose description
\* change is suppressed: its task file parses to an empty description while
\* the remote description was not empty when the call began.
Suppressed(i) ==
    LET k == out.issueKeys[i]
        taskData == readTaskFile(files, k)
        original == out.before[IdOf(k)]
    IN  /\ taskData.found
        /\ original # NoIssue
        /\ ~(out.rfail.key = k /\ out.rfail.op = "get")
        /\ taskData.description = <<>>
        /\ original.description # <<>>

\* C8: update-issues sends no description for a key whose local description
\* is empty while the remote one is not, and the remote description of that
\* issue is the same after the call, also when its title is pushed.
C8_EmptyDescriptionNeverSent ==
    out.op = "update-issues" =>
        \A i \in 1..Len(out.issueKeys) :
            Suppressed(i) =>
                LET k == out.issueKeys[i]
                IN  /\ \A j \in 1..Len(out.sent) :
                           out.sent[j].key = k => out.sent[j].data.description = NoField
                    /\ remote[IdOf(k)].description = out.before[IdOf(k)].description

\* C8 witness: a call pushed the title of a key whose description change is
\* suppressed.
C8_Witness ==
    /\ out.op = "update-issues"
    /\ \E i \in 1..Len(out.issueKeys) :
         /\ Suppressed(i)
         /\ \E j \in 1..Len(out.sent) :
              /\ out.sent[j].key = out.issueKeys[i]
              /\ out.sent[j].ok
              /\ out.sent[j].data.summary # NoField
              /\ remote[IdOf(out.issueKeys[i])].summary = out.sent[j].data.summary

\* C9: when no remote call fails, the result of every key whose description
\* change is suppressed says that the description update was skipped,
\* whether or not the title of the key changed.
C9_SuppressionReported ==
    (out.op = "update-issues" /\ out.rfail = NoRemoteFail) =>
        \A i \in 1..Len(out.issueKeys) :
            Suppressed(i) =>
                \E n \in 1..Len(out.results[i].changes) :
                    out.results[i].changes[n] = "Description update skipped"

\* C10: a sync pass in which the file operation of one issue fails still
\* visits every issue of the filtered batch.
C10_FailureDoesNotAbortPass ==
    (out.op = "sync-issues" /\ out.issues # {}) =>
        out.pass.visited = FilteredKeys(out)

\* C11: when the task file of a fetched issue of a non-ignored type (the
\* first file of that name in scan order) lies in the folder assigned to the
\* issue, the sync pass leaves the file where it is, and its content after
\* the pass is the content generated from the remote summary and
\* description, whatever the file held before.
C11_ExistingFileRewrittenInPlace ==
    [][SyncStep =>
        \A x \in out'.issues :
            LET k == x.issueKey
                d == findExistingTaskFile(files, k)
            IN  (x.typeName \notin ignoreIssueTypes /\ d # NoDir /\ out'.pass.folders[k] = d)
                => /\ files'[Path(d, k)] = generateMarkdownContent(x.summary, x.description)
                   /\ DirsOf(files', k) = DirsOf(files, k)
                   /\ k \in out'.pass.rewritten
                   /\ k \notin out'.pass.moved \cup out'.pass.created]_vars

\* C11 witness: a sync pass rewrote a task file that the user had edited (its
\* content was not the generated one), in the folder it was in.
C11_Witness ==
    /\ out.op = "sync-issues"
    /\ out.result = "ok"
    /\ \E x \in out.issues :
         /\ x.issueKey \in out.pass.overwritten
         /\ DirsOf(files, x.issueKey) = {out.pass.folders[x.issueKey]}
         /\ files[Path(out.pass.folders[x.issueKey], x.issueKey)] =
                generateMarkdownContent(x.summary, x.description)

\* C12: when the task file of a fetched issue of a non-ignored type lies in a
\* directory other than the folder assigned to the issue, then after the
\* sync pass the file at the new path holds exactly what the file at the old
\* path held, and there is no file at the old path.
C12_MoveKeepsContent ==
    [][SyncStep =>
        \A x \in out'.issues :
            LET k == x.issueKey
                d == findExistingTaskFile(files, k)
            IN  (x.typeName \notin ignoreIssueTypes /\ d # NoDir /\ out'.pass.folders[k] # d)
                => /\ files'[Path(out'.pass.folders[k], k)] = files[Path(d, k)]
                   /\ files'[Path(d, k)] = NoFile
                   /\ k \in out'.pass.moved
                   /\ k \notin out'.pass.rewritten \cup out'.pass.created]_vars

\* C12 witness: a sync pass moved a task file whose content is not the one
\* generated from the remote issue (the user had edited it), and the file
\* still has that content at its new path.
C12_Witness ==
    /\ out.op = "sync-issues"
    /\ out.result = "ok"
    /\ \E x \in out.issues :
         /\ x.issueKey \in out.pass.moved
         /\ DirsOf(files, x.issueKey) = {out.pass.folders[x.issueKey]}
         /\ files[Path(out.pass.folders[x.issueKey], x.issueKey)] #
                generateMarkdownContent(x.summary, x.description)

\* The fetched issues of a non-ignored type, and the node that
\* buildIssueTreeMap makes for one of them (the parent and the children of a
\* node do not depend on the order of the list).
FilteredIssues(report) == {y \in report.issues : y.typeName \notin ignoreIssueTypes}

SeqOf(S) == CHOOSE s \in [1..Cardinality(S) -> S] : Range(s) = S

NodeOf(report, idToKeyMap, k) ==
    LET tree == buildIssueTreeMap(SeqOf(FilteredIssues(report)), idToKeyMap)
    IN  tree[CHOOSE i \in DOMAIN tree : tree[i].issueKey = k]

\* C13: every issue of the tree of a sync pass that has no parent and no
\* children is assigned the folder others/.
C13_LoneIssueInOthers ==
    [][SyncStep =>
        \A x \in FilteredIssues(out') :
            LET node == NodeOf(out', getLastSyncData(lastSync).idToKeyMap, x.issueKey)
            IN  (node.parent = NoKey /\ Len(node.children) = 0)
                => out'.pass.folders[x.issueKey] = "others"]_vars

\* C14: in one sync pass, two issues whose tree nodes have the same parent key
\* are assigned the same folder when at least one of them has a task file
\* that the file scan of the pass records (a folder known before the other
\* one is resolved).
C14_SiblingsShareFolder ==
    [][SyncStep =>
        \A x, y \in FilteredIssues(out') :
            LET idToKeyMap == getLastSyncData(lastSync).idToKeyMap
                nx == NodeOf(out', idToKeyMap, x.issueKey)
                ny == NodeOf(out', idToKeyMap, y.issueKey)
            IN  (/\ nx.parent # NoKey
                 /\ nx.parent = ny.parent
                 /\ ExistingFolders(files)[x.issueKey] # NoDir)
                => out'.pass.folders[x.issueKey] = out'.pass.folders[y.issueKey]]_vars

\* C15: a fetched issue of a non-ignored type that has no task file, and
\* whose tree node has a parent (an issue of the pass or a stub) with a task
\* file in directory d, has its task file created in d by the sync pass,
\* whatever kind of directory d is.
C15_CreatedNextToParent ==
    [][SyncStep =>
        \A x \in FilteredIssues(out') :
            LET node == NodeOf(out', getLastSyncData(lastSync).idToKeyMap, x.issueKey)
            IN  \A d \in Dirs :
                    (/\ node.parent # NoKey
                     /\ DirsOf(files, x.issueKey) = {}
                     /\ DirsOf(files, node.parent) = {d})
                    => /\ out'.pass.folders[x.issueKey] = d
                       /\ DirsOf(files', x.issueKey) = {d}]_vars

\* C16: when a fetched issue X of a non-ignored type has a parentIssueId
\* whose issue P is not in the fetch, and a sync has fetched P before (P has
\* a task file, and only a sync creates task files), the tree node of X has
\* the parent key of P.
C16_StubParentFromAnyEarlierSync ==
    [][SyncStep =>
        \A x \in FilteredIssues(out') :
            LET pid == x.parentIssueId
                node == NodeOf(out', getLastSyncData(lastSync).idToKeyMap, x.issueKey)
            IN  (/\ pid # 0
                 /\ KeyOf(pid) \notin FetchedKeys(out')
                 /\ DirsOf(files, KeyOf(pid)) # {})
                => node.parent = KeyOf(pid)]_vars

\* C16, as the code has it: the parent is recalled over one hop only.  When
\* the last tool call was a completed sync, the tree node of a fetched issue
\* X whose parent P is not in the fetch has a stub parent with the key of P
\* if that sync fetched P, and no parent otherwise; in the first case X,
\* when it has no task file while P has one that the file scan records, is
\* assigned the directory of the file of P.
C16_StubParentFromLastSync ==
    [][(SyncStep /\ out.op = "sync-issues" /\ out.result = "ok") =>
        \A x \in FilteredIssues(out') :
            LET pid == x.parentIssueId
                node == NodeOf(out', getLastSyncData(lastSync).idToKeyMap, x.issueKey)
            IN  (pid # 0 /\ KeyOf(pid) \notin FetchedKeys(out'))
                => IF KeyOf(pid) \in FetchedKeys(out)
                   THEN /\ node.parent = KeyOf(pid)
                        /\ node.stub
                        /\ (/\ ExistingFolders(files)[x.issueKey] = NoDir
                            /\ ExistingFolders(files)[KeyOf(pid)] # NoDir)
                           => out'.pass.folders[x.issueKey] =
                                  ExistingFolders(files)[KeyOf(pid)]
                   ELSE node.parent = NoKey]_vars

\* C16 witness: an incremental sync that did not fetch the parent created
\* the task file of a child in the directory of the file of the parent, a
\* directory other than others/.
C16_Witness ==
    /\ out.op = "sync-issues"
    /\ out.result = "ok"
    /\ ~out.full
    /\ \E x \in FilteredIssues(out) :
         /\ x.parentIssueId # 0
         /\ KeyOf(x.parentIssueId) \notin FetchedKeys(out)
         /\ x.issueKey \in out.pass.created
         /\ out.pass.folders[x.issueKey] # "others"
         /\ DirsOf(files, KeyOf(x.parentIssueId)) = {out.pass.folders[x.issueKey]}
         /\ DirsOf(files, x.issueKey) = {out.pass.folders[x.issueKey]}

\* C17: a sync pass in which the tree node of a fetched issue has a stub
\* parent leaves every path of the key of the stub as it was (no file is
\* created, rewritten, moved or removed for that key), and the idToKeyMap
\* that the pass saves has exactly the ids of the fetched issues, so no
\* entry for the id of a stub that was not fetched.
C17_StubNeverMaterialised ==
    [][(SyncStep /\ out'.result = "ok") =>
        /\ \A x \in FilteredIssues(out') :
              LET node == NodeOf(out', getLastSyncData(lastSync).idToKeyMap, x.issueKey)
              IN  node.stub =>
                    /\ \A d \in Dirs : files'[Path(d, node.parent)] = files[Path(d, node.parent)]
                    /\ node.parent \notin out'.pass.created \cup out'.pass.rewritten
                                       \cup out'.pass.moved \cup out'.removed
                    /\ (node.parent \notin FetchedKeys(out')
                        => x.parentIssueId \notin DOMAIN lastSync'.idToKeyMap)
        /\ DOMAIN lastSync'.idToKeyMap = {x.id : x \in out'.issues}]_vars

\* C17 witness: a completed incremental sync fetched a child without its
\* parent and placed it by the stub (in the directory of the file of the
\* parent), and the saved idToKeyMap has no entry for the id of the parent.
C17_Witness ==
    /\ out.op = "sync-issues"
    /\ out.result = "ok"
    /\ ~out.full
    /\ \E x \in FilteredIssues(out) :
         /\ x.parentIssueId # 0
         /\ KeyOf(x.parentIssueId) \notin FetchedKeys(out)
         /\ x.issueKey \in out.pass.created
         /\ out.pass.folders[x.issueKey] = KeyOf(x.parentIssueId)
         /\ x.parentIssueId \notin DOMAIN lastSync.idToKeyMap
         /\ files[Path(KeyOf(x.parentIssueId), KeyOf(x.parentIssueId))] =
                generateMarkdownContent(remote[x.parentIssueId].summary,
                                        remote[x.parentIssueId].description)

\* C18: a task file generated from a title and a description, read back with
\* readTaskFile, gives the trimmed title and the trimmed description, for
\* every title and every description.
C18_RoundTrip ==
    out.op = "read" =>
        /\ out.taskData.found
        /\ out.taskData.title = Trim(out.title)
        /\ out.taskData.description = Trim(out.description)

\* The ids of the fetched issues of a sync-issues call.
FetchedIds(report) == {x.id : x \in report.issues}

C20_CrashRecovery ==
    [][(out.op = "crashed" /\ SyncStep) =>
        /\ out'.result = "ok"
        /\ files' = out.direct.files
        /\ lastSync'.present
        /\ lastSync'.idToKeyMap = out.direct.lastSync.idToKeyMap]_vars

\* C21: when .last-sync holds a content that getLastSyncData takes as a
\* legacy timestamp, a sync-issues call with a remote that answers and a
\* writable task root completes as an incremental sync and leaves .last-sync
\* in the structured form, with the time of the call.
C21_LegacyTimestampAccepted ==
    [][(/\ lastSync.present
        /\ "text" \in DOMAIN lastSync
        /\ JSONKind(lastSync.text) # "number"
        /\ SyncStep) =>
        /\ out'.result = "ok"
        /\ ~out'.full
        /\ DOMAIN lastSync' = {"present", "timestamp", "idToKeyMap"}
        /\ lastSync'.timestamp = clock']_vars

\* C27: getLastSyncData returns {null, {}} when .last-sync is missing, the
\* whole trimmed content and {} when the file holds anything but structured
\* data, and the stored timestamp and idToKeyMap, null and {} standing in for
\* a field that is absent, when it holds structured data.
C27_LoadLastSync ==
    LET data == getLastSyncData(lastSync)
    IN  IF ~lastSync.present THEN data = [timestamp |-> 0, idToKeyMap |-> <<>>]
        ELSE IF "text" \in DOMAIN lastSync
             THEN /\ LegacyTimestamp(lastSync.text) = Trim(lastSync.text)
                  /\ data.timestamp = TimeOfText(Trim(lastSync.text))
                  /\ data.idToKeyMap = <<>>
        ELSE /\ data.timestamp =
                    IF "timestamp" \in DOMAIN lastSync THEN lastSync.timestamp ELSE 0
             /\ data.idToKeyMap =
                    IF "idToKeyMap" \in DOMAIN lastSync THEN lastSync.idToKeyMap ELSE <<>>

\* C22: update-issues gives one result per key of the list, in the order of
\* the list.  A key whose task file is missing gets the one result "file not
\* found" and no remote call; a key whose getIssue fails gets the one result
\* "fetch failed" after one getIssue and no updateIssue; a key whose
\* updateIssue fails gets the one result "update failed" after one getIssue
\* and one updateIssue.
C22_FailureIsolated ==
    out.op = "update-issues" =>
        /\ Len(out.results) = Len(out.issueKeys)
        /\ \A i \in 1..Len(out.issueKeys) :
              LET k == out.issueKeys[i]
                  nGets == Cardinality({n \in 1..Len(out.gets) : out.gets[n] = k})
                  nSent == Cardinality({n \in 1..Len(out.sent) : out.sent[n].key = k})
                  missing == ~readTaskFile(files, k).found
                  getFails == \/ out.before[IdOf(k)] = NoIssue
                              \/ out.rfail = [key |-> k, op |-> "get"]
                  kind == out.results[i].kind
              IN  /\ out.results[i].key = k
                  /\ missing => (kind = "file not found" /\ nGets = 0 /\ nSent = 0)
                  /\ (~missing /\ getFails) =>
                         (kind = "fetch failed" /\ nGets = 1 /\ nSent = 0)
                  /\ (~missing /\ ~getFails) =>
                         /\ nGets = 1
                         /\ nSent <= 1
                         /\ kind \in {"no changes", "updated", "update failed"}
                         /\ (kind = "update failed") =
                                (nSent = 1 /\ out.rfail = [key |-> k, op |-> "update"])
                         /\ (kind = "updated") =
                                (nSent = 1 /\ out.rfail # [key |-> k, op |-> "update"])

\* C22 witness: the remote call of the first key failed, and the second key
\* was updated on the remote.
C22_Witness ==
    /\ out.op = "update-issues"
    /\ Len(out.issueKeys) = 2
    /\ out.rfail.key = out.issueKeys[1]
    /\ out.results[1].kind \in {"fetch failed", "update failed"}
    /\ out.results[2].kind = "updated"
    /\ remote[IdOf(out.issueKeys[2])] # out.before[IdOf(out.issueKeys[2])]

\* C23: after a sync pass that ran to its end with no file operation failing,
\* every fetched issue of a non-ignored type has a file {key}.md in the
\* folder that the pass assigned to it.
C23_FileInAssignedFolder ==
    (out.op = "sync-issues" /\ out.result = "ok" /\ out.pass.logged = {}) =>
        \A k \in FilteredKeys(out) : files[Path(out.pass.folders[k], k)] # NoFile

\* C23 witness: a pass with no failure created the file of one issue and
\* moved the file of another.
C23_Witness ==
    /\ out.op = "sync-issues"
    /\ out.result = "ok"
    /\ out.pass.logged = {}
    /\ out.pass.created # {}
    /\ out.pass.moved # {}
    /\ \A k \in FilteredKeys(out) : files[Path(out.pass.folders[k], k)] # NoFile

C26_TreeNodes ==
    out.op = "syncIssues" =>
        LET filtered == SelectSeq(IssueList(out.order),
                                  LAMBDA x : x.typeName \notin ignoreIssueTypes)
            map == getLastSyncData(lastSync).idToKeyMap
            tree == buildIssueTreeMap(filtered, map)
        IN  \A i \in 1..Len(filtered) :
              LET x == filtered[i]
                  k == x.issueKey
                  pid == x.parentIssueId
                  inSet == {y \in Range(filtered) : y.id = pid}
                  kids == {y.issueKey : y \in {z \in Range(filtered) : z.parentIssueId = x.id}}
                  custom == {d \in out.dirsBefore : StartsWithKeyDash(d, k)}
                  existing == ExistingFolders(out.before)[k]
              IN  /\ tree[i].issueKey = k
                  /\ Range(tree[i].children) = kids
                  /\ Len(tree[i].children) = Cardinality(kids)
                  /\ tree[i].parent =
                         IF pid # 0 /\ inSet # {} THEN (CHOOSE y \in inSet : TRUE).issueKey
                         ELSE IF pid # 0 /\ pid \in DOMAIN map THEN map[pid]
                         ELSE NoKey
                  /\ tree[i].stub = (pid # 0 /\ inSet = {} /\ pid \in DOMAIN map)
                  /\ (pid # 0 /\ inSet = {} /\ pid \notin DOMAIN map) =>
                         IF existing # NoDir THEN out.pass.folders[k] = existing
                         ELSE IF kids = {} THEN out.pass.folders[k] = "others"
                         ELSE IF custom # {} THEN out.pass.folders[k] \in custom
                         ELSE out.pass.folders[k] = k

\* C26 witness: a call handled an issue without task file whose parent is
\* neither in the list nor in idToKeyMap and whose child is in the list, and
\* created its file in the directory named after its key.
C26_Witness ==
    /\ out.op = "syncIssues"
    /\ \E i, j \in 1..Len(out.order) :
         LET x == remote[out.order[i]]
             y == remote[out.order[j]]
         IN  /\ x.parentIssueId # 0
             /\ x.parentIssueId \notin Range(out.order)
             /\ x.parentIssueId \notin DOMAIN getLastSyncData(lastSync).idToKeyMap
             /\ y.parentIssueId = x.id
             /\ DirsOf(out.before, x.issueKey) = {}
             /\ out.pass.folders[x.issueKey] = x.issueKey
             /\ files[Path(x.issueKey, x.issueKey)] # NoFile

\* C28: a sync-issues call that completes writes .last-sync as {timestamp,
\* idToKeyMap} with the time of the call and with exactly one entry id -> key
\* per issue fetched by this call; an entry of the map persisted before is
\* kept only when its issue is among them.
C28_MapRebuiltFromFetch ==
    [][(SyncStep /\ out'.result = "ok") =>
        /\ lastSync'.present
        /\ DOMAIN lastSync' = {"present", "timestamp", "idToKeyMap"}
        /\ lastSync'.timestamp = clock'
        /\ DOMAIN lastSync'.idToKeyMap = FetchedIds(out')
        /\ \A x \in out'.issues : lastSync'.idToKeyMap[x.id] = x.issueKey]_vars

\* C28 witness: an incremental sync has fetched some issues and left out an
\* issue that has a task file, and the map it wrote has no entry for the
\* issue left out.
C28_Witness ==
    /\ out.op = "sync-issues"
    /\ out.result = "ok"
    /\ ~out.full
    /\ FetchedIds(out) # {}
    /\ DOMAIN lastSync.idToKeyMap = FetchedIds(out)
    /\ \E i \in PresentIds \ FetchedIds(out) :
           /\ DirsOf(files, remote[i].issueKey) # {}
           /\ i \notin DOMAIN lastSync.idToKeyMap

C25_TempFilesReplaced ==
    ( /\ out.op = "bulk-create-tasks"
      /\ out.result # "not connected"
      /\ out.errors = 0
      /\ out.standalone = {} ) =>
        LET temps == {p \in Keys \X TempNames :
                         MatchesTempPattern(p[1], p[2]) /\ out.before[p] # NoFile}
            newIds == PresentIds \ out.issuesBefore
        IN  /\ Cardinality(newIds) = Cardinality(temps)
            /\ \A p \in temps :
                  /\ files[p] = NoFile
                  /\ \E i \in newIds :
                        /\ files[Path(p[1], KeyOf(i))] # NoFile
                        /\ ParseTaskFile(files[Path(p[1], KeyOf(i))]).title =
                               Trim(remote[i].summary)
            /\ \A p \in Dirs \X Keys :
                  out.before[p] # NoFile => files[p] = out.before[p]

\* C34: a sync-issues call that ends with an error (the remote is not
\* reachable, the fetch fails, or a file operation throws out of the pass)
\* leaves .last-sync as it was before the call.
C34_ErrorKeepsLastSync ==
    [][(out'.op = "sync-issues" /\ out'.result # "ok") => lastSync' = lastSync]_vars

\* C34 witness: after a sync that wrote .last-sync, a later call ended with
\* an error thrown out of the pass, and .last-sync still holds the timestamp
\* and the map of the earlier sync.
C34_Witness ==
    /\ out.op = "sync-issues"
    /\ out.result = "error"
    /\ out.pass.thrown
    /\ lastSync.present
    /\ lastSync.timestamp = out.since
    /\ lastSync.timestamp < clock
    /\ DOMAIN lastSync.idToKeyMap # {}

\* C33: in a call of syncIssues on a task root with at most one file per
\* key, the keys being of the form [A-Z]+-digits, every issue of the filtered
\* list that has a task file is assigned the directory that file is in, the
\* pass moves no file, and the file is still in that directory after the
\* pass, whatever parent and children the issue has.
C33_ExistingFileStays ==
    ( /\ out.op = "syncIssues"
      /\ \A k \in Keys : MatchesKeyPattern(k) /\ Cardinality(DirsOf(out.before, k)) <= 1 ) =>
        /\ out.pass.moved = {}
        /\ \A i \in 1..Len(out.order) :
             LET x == remote[out.order[i]]
             IN  \A d \in DirsOf(out.before, x.issueKey) :
                    x.typeName \notin ignoreIssueTypes =>
                        /\ out.pass.folders[x.issueKey] = d
                        /\ DirsOf(files, x.issueKey) = {d}

\* C33 witness: a call handled an issue whose file is in others/ and its
\* parent whose file is in the directory named after the parent key; the
\* file in others/ was rewritten where it is, and nothing was moved.
C33_Witness ==
    /\ out.op = "syncIssues"
    /\ MatchesKeyPattern(KeyOf(1))
    /\ \E i, j \in 1..Len(out.order) :
         LET x == remote[out.order[i]]
             y == remote[out.order[j]]
         IN  /\ y.parentIssueId = x.id
             /\ x.typeName \notin ignoreIssueTypes
             /\ DirsOf(out.before, x.issueKey) = {x.issueKey}
             /\ DirsOf(out.before, y.issueKey) = {"others"}
             /\ DirsOf(files, y.issueKey) = {"others"}
             /\ y.issueKey \in out.pass.rewritten
             /\ out.pass.moved = {}

\* C31: getIssues asks for the pages at the offsets 0, PageLimit,
\* 2 * PageLimit, ...; while no request has failed, every page before the
\* last one received is full and what it has collected is the pages received,
\* one after the other; it has left the loop exactly when the last page
\* received is short; and a call that has started does leave the loop, the
\* remote holding finitely many issues.
C31_PagesUntilShort ==
    /\ [](out.op = "getIssues" =>
            /\ \A i \in 1..Len(out.requests) : out.requests[i] = (i - 1) * PageLimit
            /\ ~out.failed =>
                 /\ Len(out.pages) = Len(out.requests)
                 /\ \A i \in 1..(Len(out.pages) - 1) : Len(out.pages[i]) = PageLimit
                 /\ Len(out.allIssues) = Len(out.pages) * PageLimit
                        - (IF out.done THEN PageLimit - Len(out.pages[Len(out.pages)]) ELSE 0)
                 /\ \A i \in 1..Len(out.pages) : \A j \in 1..Len(out.pages[i]) :
                        out.allIssues[(i - 1) * PageLimit + j] = out.pages[i][j]
                 /\ out.done = (out.pages # <<>> /\ Len(out.pages[Len(out.pages)]) < PageLimit))
    /\ (out.op = "getIssues") ~> (out.op = "getIssues" /\ out.done)

\* C31 witness: getIssues has returned after two full pages and a short one
\* that is not empty.
C31_Witness ==
    /\ out.op = "getIssues"
    /\ out.done
    /\ ~out.failed
    /\ out.requests = <<0, PageLimit, 2 * PageLimit>>
    /\ Len(out.pages[3]) > 0
    /\ Len(out.allIssues) > 2 * PageLimit

C37_SyncThenPushIsNoop ==
    [][( /\ out.op = "sync-issues"
         /\ out.result = "ok"
         /\ out'.op = "update-issues"
         /\ out'.rfail = NoRemoteFail ) =>
        /\ out'.sent = <<>>
        /\ remote' = remote
        /\ \A n \in 1..Len(out'.results) :
              remote[IdOf(out'.results[n].key)] # NoIssue
                  => out'.results[n].kind = "no changes"]_vars

\* C36: a sync-issues call leaves every file whose name is not an issue key
\* (a temporary task file) where it is and as it is, and also every file
\* named with a key that has not the form letters-digits and is not the key
\* of a fetched issue; this holds for full syncs with their orphan cleanup,
\* for failing syncs and for syncs after bulk-create-tasks runs.
C36_OtherFilesUntouched ==
    [][out'.op = "sync-issues" =>
          /\ \A p \in Dirs \X TempNames : files'[p] = files[p]
          /\ \A p \in Dirs \X Keys :
                ( /\ ~MatchesKeyPattern(p[2])
                  /\ p[2] \notin {x.issueKey : x \in out'.issues} )
                    => files'[p] = files[p]]_vars

\* A full sync has removed the file of an issue that is gone, and a
\* temporary task file is still there.
C36_Witness ==
    /\ out.op = "sync-issues"
    /\ out.result = "ok"
    /\ out.full
    /\ out.removed # {}
    /\ \E p \in Dirs \X TempNames : files[p] # NoFile

\* C38: a bulk-create-tasks run that follows another one creates no issue
\* for a temporary file (folder and name) for which the earlier run created
\* an issue, whatever failed in the earlier run.
C38_OneIssuePerTempFile ==
    [][(out.op = "bulk-create-tasks" /\ out'.op = "bulk-create-tasks") =>
          \A m \in 1..Len(out.posted), n \in 1..Len(out'.posted) :
             ~ ( /\ out.posted[m].folder = out'.posted[n].folder
                 /\ out.posted[m].fileName = out'.posted[n].fileName )]_vars

\* C32: after every sequence of sync-issues and bulk-create-tasks runs from
\* a task root with at most one file per issue key, the task root still
\* holds at most one file named K.md for every issue key K.
C32_OneFilePerKey ==
    \A k \in Keys : Cardinality({d \in Dirs : files[Path(d, k)] # NoFile}) <= 1

====
